---- MODULE Spec2Model ----
(***************************************************************************)
(* Millstone custom SV-calling pipeline (genome_finish/assembly.py):       *)
(* run_de_novo_assembly_pipeline, the celery chord/chain it builds, the    *)
(* generate_contigs / coverage-deletion / parse_variants_from_vcf tasks    *)
(* and clean_up_previous_runs_of_sv_calling_pipeline.                      *)
(***************************************************************************)
EXTENDS Integers, Sequences, FiniteSets, TLC

\* ------------------------------------------------------------------ bounds
NumSamples == 2
MaxContigs == 1
MaxRuns == 3
MaxCalls == 2
MaxListLen == 3
MaxCoverage == 30
MaxTemplate == 12
MaxRecords == 120
MaxSeqLen == 3

Samples == 1..NumSamples

\* ExperimentSample.label of each sample alignment (distinct labels; the
\* label order is the reverse of the order of the model's sample numbers).
Label(s) == NumSamples + 1 - s

\* --------------------------------------------------------------- constants
\* ExperimentSampleToAlignment.ASSEMBLY_STATUS; "NONE" is a sample whose
\* assembly_status has never been written.
StatusSet ==
    {"NONE", "QUEUED", "ASSEMBLING", "WAITING_TO_PARSE", "PARSING_VARIANTS",
     "COMPLETED", "FAILED"}

Terminal == {"COMPLETED", "FAILED"}

STRUCTURAL_VARIANT_VCF_DATASETS ==
    << "VCF_DE_NOVO_ASSEMBLED_CONTIGS", "VCF_DE_NOVO_ASSEMBLY_GRAPH_WALK",
       "VCF_DE_NOVO_ASSEMBLY_ME_GRAPH_WALK", "VCF_COV_DETECT_DELETIONS" >>

CUSTOM_SV_METHODS == {"DE_NOVO_ASSEMBLY", "ME_GRAPH_WALK", "GRAPH_WALK", "COVERAGE"}

STRUCTURAL_VARIANT_BAM_DATASETS ==
    << "BWA_ALTALIGN", "BWA_PILED", "BWA_CLIPPED", "BWA_SPLIT", "BWA_UNMAPPED",
       "BWA_DISCORDANT" >>

Range(q) == {q[i] : i \in DOMAIN q}

DatasetTypes ==
    Range(STRUCTURAL_VARIANT_VCF_DATASETS) \cup Range(STRUCTURAL_VARIANT_BAM_DATASETS)
        \cup {"BWA_FOR_DE_NOVO_ASSEMBLY", "MOBILE_ELEMENT_FASTA", "BWA_ALIGN"}

\* INFO_METHOD written into each candidate VCF by the stage that produces it.
MethodOfVcf(t) ==
    CASE t = "VCF_DE_NOVO_ASSEMBLED_CONTIGS" -> "DE_NOVO_ASSEMBLY"
      [] t = "VCF_DE_NOVO_ASSEMBLY_GRAPH_WALK" -> "GRAPH_WALK"
      [] t = "VCF_DE_NOVO_ASSEMBLY_ME_GRAPH_WALK" -> "ME_GRAPH_WALK"
      [] OTHER -> "COVERAGE"

\* default_sv_indicant_classes of get_sv_indicating_reads
DefaultSvIndicantClasses ==
    [k \in Range(STRUCTURAL_VARIANT_BAM_DATASETS) |->
        k \in {"BWA_CLIPPED", "BWA_SPLIT", "BWA_UNMAPPED", "BWA_DISCORDANT"}]

\* Module-level velvet defaults.
VELVET_COVERAGE_CUTOFF == 30
VELVET_HASH_LENGTH == 21
VELVET_MIN_CONTIG_LENGTH == 200

\* The keys of a velvet option dict, as << group, key >>.
VelvetKeys ==
    {<< "velveth", "hash_length" >>, << "velvetg", "read_trkg" >>,
     << "velvetg", "cov_cutoff" >>, << "velvetg", "min_contig_lgth" >>,
     << "velvetg", "ins_length" >>, << "velvetg", "ins_length_sd" >>,
     << "velvetg", "exp_cov" >>}

\* The keys generate_contigs computes a value for.
ComputedKeys ==
    {<< "velvetg", "ins_length" >>, << "velvetg", "ins_length_sd" >>,
     << "velvetg", "exp_cov" >>, << "velvetg", "cov_cutoff" >>}

\* Values of an option dict: a key that is not in the dict, a module default,
\* a value of the caller, and a value computed from the statistics of the
\* sample (for the coverages, with the hash length k they were computed for).
Absent == [src |-> "absent", val |-> 0]
Default(v) == [src |-> "default", val |-> v]
Caller(v) == [src |-> "caller", val |-> v]
Computed(k) == [src |-> "computed", val |-> k]

\* An empty option dict.
NoOpts == [x \in VelvetKeys |-> Absent]

\* DEFAULT_VELVET_OPTS as the module defines it; read_trkg 'yes' is 1.
DEFAULT_VELVET_OPTS ==
    [x \in VelvetKeys |->
        CASE x = << "velveth", "hash_length" >> -> Default(VELVET_HASH_LENGTH)
          [] x = << "velvetg", "read_trkg" >> -> Default(1)
          [] x = << "velvetg", "cov_cutoff" >> -> Default(VELVET_COVERAGE_CUTOFF)
          [] x = << "velvetg", "min_contig_lgth" >> -> Default(VELVET_MIN_CONTIG_LENGTH)
          [] OTHER -> Absent]

\* generate_contigs lines 249-276 on the module's option dict and the caller's
\* input_velvet_opts: dict() copies the outer dict only, so the computed
\* values and the caller's values are assigned into the inner dicts of the
\* module's dict. The result is both the dict handed to assemble_with_velvet
\* and the module's dict afterwards.
VelvetOpts(defaults, input) ==
    LET k == defaults[<< "velveth", "hash_length" >>].val
        computed == [x \in VelvetKeys |->
                        IF x \in {<< "velvetg", "ins_length" >>, << "velvetg", "ins_length_sd" >>}
                        THEN Computed(0)
                        ELSE IF x \in {<< "velvetg", "exp_cov" >>, << "velvetg", "cov_cutoff" >>}
                        THEN Computed(k)
                        ELSE defaults[x]]
    IN  [x \in VelvetKeys |-> IF input[x] # Absent THEN input[x] ELSE computed[x]]

\* The arguments of run_de_novo_assembly_pipeline after the sample list, at
\* their defaults.
DefaultRunArgs == [sv_read_classes |-> << >>, input_velvet_opts |-> NoOpts, overwrite |-> TRUE]

\* ------------------------------------------------------------------- state
VARIABLES
    status,        \* sample -> assembly_status
    contigs,       \* sample -> set of Contig records of the sample
    datasets,      \* sample -> dataset type -> number of Datasets of that type
    variants,      \* persisted Variants: records [sample, method, contig]
    keyMapMethod,  \* 'INFO_METHOD' in ref_genome.variant_key_map[COMMON_DATA]
    fsDirs,        \* directories that exist on disk
    runPc,         \* position of the run_de_novo_assembly_pipeline call
    runList,       \* its sample_alignment_list argument
    runIdx,        \* index of the sample its first loop is at
    runCleaned,    \* samples whose cleanup returned in this call
    runs,          \* number of run_de_novo_assembly_pipeline calls so far
    runArgs,       \* the other arguments of the last such call
    batch,         \* the sorted sample list the chord was built from
    genPc,         \* sample -> position of its generate_contigs task
    covPc,         \* sample -> position of its cov_detect_deletion_make_vcf task
    parsePc,       \* sample -> position of its parse_variants_from_vcf task
    velvetLog,     \* sample -> external velvet calls of its generate_contigs task
    cleanHist,     \* history of consecutive direct cleanup calls
    genRes,        \* sample -> what its last generate_contigs call got and did
    firstRun,      \* sample -> its first pipeline run that ended COMPLETED
    callHist,      \* history of consecutive direct generate_contigs calls
    evid,          \* what the last direct get_sv_indicating_reads call got and did
    directCalls,   \* number of direct calls of such functions so far
    ranked,        \* what the last direct evaluate_contigs call got and did
    velvetDefaults, \* the module's DEFAULT_VELVET_OPTS dict
    trackList,     \* BAM tracks of the reference genome: records [sample, type]
    kmer,          \* what the last kmer_coverage call got and returned
    velvetRun,     \* what the last direct _run_velvet call got and issued
    labelRun,      \* the labels assemble_with_velvet gave the records of a contigs.fa
    seqRun         \* the sequence assemble_with_velvet wrote for a record

dataVars == << contigs, datasets, variants, keyMapMethod, fsDirs >>
runVars == << runPc, runList, runIdx, runCleaned, runs, runArgs >>
taskVars == << batch, genPc, covPc, parsePc, velvetLog >>
histVars == << genRes, firstRun >>
callVars == << callHist, evid, directCalls, ranked >>
fnVars == << kmer, velvetRun, labelRun, seqRun >>
extVars == << velvetDefaults, trackList, fnVars >>
vars == << status, dataVars, runVars, taskVars, cleanHist, histVars, callVars, extVars >>

\* cleanHist when the last operation was not a direct cleanup call.
NoHist ==
    [sample |-> 0, n |-> 0, raised |-> FALSE, fresh |-> FALSE, hadContig |-> FALSE,
     changed |-> FALSE]

\* genRes of a sample whose generate_contigs has not been called since the
\* last pipeline call started.
NoGen ==
    [called |-> FALSE, overwrite |-> TRUE, evaluated |-> FALSE, listLen |-> 0,
     sv_read_classes |-> << >>, input_velvet_opts |-> NoOpts, opts |-> NoOpts,
     in |-> [classifyOk |-> FALSE, v |-> [h |-> 0, g |-> 0], n |-> 0, reasm |-> << >>,
             p |-> [ok |-> FALSE, placeable |-> {}, gw |-> FALSE, me |-> FALSE]]]

\* callHist when the last operation was not a direct generate_contigs call.
NoCall ==
    [n |-> 0, overwrite |-> TRUE, raised |-> FALSE, changed |-> FALSE, in |-> NoGen.in]

\* evid when the last operation was not a direct get_sv_indicating_reads call.
NoEvid ==
    [called |-> FALSE, sample |-> 0, overwrite |-> FALSE, raised |-> FALSE, existed |-> {},
     input |-> << >>, classes |-> DefaultSvIndicantClasses, bams |-> << >>,
     log |-> << >>]

\* kmer before any kmer_coverage call.
NoKmer == [called |-> FALSE, C |-> 0, L |-> 1, k |-> 1, out |-> [num |-> 0, den |-> 1]]

\* velvetRun before any direct _run_velvet call.
NoVelvetRun == [called |-> FALSE, dir |-> 0, opts |-> NoOpts, cmds |-> << >>, raised |-> FALSE]

\* labelRun before any contigs.fa was labelled.
NoLabelRun == [called |-> FALSE, sample |-> << >>, n |-> 0, labels |-> << >>]

\* seqRun before any record was written.
NoSeqRun == [called |-> FALSE, raised |-> FALSE, original |-> << >>, reassembly |-> << >>,
             stored |-> << >>]

\* ranked when the last operation was not a direct evaluate_contigs call.
NoRanked ==
    [called |-> FALSE, raised |-> FALSE, in |-> << >>, out |-> << >>, placeable |-> {}]

\* firstRun of a sample no pipeline run of which has ended COMPLETED.
NoRun == [run |-> 0, contigs |-> 0, variants |-> 0, in |-> NoGen.in]

\* The variant_caller_common_data of a Contig no candidate has been linked to.
NoVccd == [method |-> "none", contig |-> 0]

\* A Contig of a sample: its uid, its ordinal in contigs.fa, which record
\* its label, coverage and node number were derived from, whether its
\* sequence file and contig_fasta dataset have been written, which record the
\* stored sequence comes from, its is_placeable annotation, and its
\* variant_caller_common_data back-reference.
ContigRec ==
    [uid : 1..(MaxCalls * MaxContigs), ord : 1..MaxContigs,
     meta : {"original", "reassembled"}, fasta : BOOLEAN,
     seq : {"none", "original", "reassembled"}, placeable : BOOLEAN,
     vccd : {NoVccd} \cup [method : CUSTOM_SV_METHODS, contig : 1..(MaxCalls * MaxContigs)]]

AssemblyDir(s) == [root |-> "model_data", sample |-> s, ord |-> 0, name |-> "assembly"]

\* ------------------------------------------------------- status bookkeeping
\* genome_finish.celery_task_decorator.set_assembly_status: a terminal status
\* is kept unless the caller forces the write.
SetAssemblyStatus(cur, new, force) ==
    IF force \/ cur \notin Terminal THEN new ELSE cur

\* ----------------------------------------------------------------- cleanup
\* shutil.rmtree(path): removes the directory, raises OSError when it does
\* not exist (ignore_errors is left at False).
RmTree(fs, path) ==
    IF path \in fs THEN [fs |-> fs \ {path}, raised |-> FALSE]
    ELSE [fs |-> fs, raised |-> TRUE]

\* reads_subdir / coverage_subdir of clean_up_previous_runs_of_sv_calling_pipeline:
\* the bare names '<uid>_BWA_STRUCTURAL_VARIANT_INDICATING_READS' and
\* '<...>_COVERAGE', not joined to jbrowse_parent_path, hence relative to the
\* working directory of the process.
ReadsSubdir(s, uid) ==
    [root |-> "cwd", sample |-> s, ord |-> uid,
     name |-> "BWA_STRUCTURAL_VARIANT_INDICATING_READS"]

CoverageSubdir(s, uid) ==
    [root |-> "cwd", sample |-> s, ord |-> uid,
     name |-> "BWA_STRUCTURAL_VARIANT_INDICATING_READS_COVERAGE"]

\* The loop over contig_uids: two rmtree calls per uid, stopping at the first
\* one that raises.
RECURSIVE RemoveContigTracks(_, _, _)
RemoveContigTracks(s, uids, fs) ==
    IF uids = {} THEN [fs |-> fs, raised |-> FALSE]
    ELSE LET o == CHOOSE x \in uids : \A y \in uids : x <= y
             r1 == RmTree(fs, ReadsSubdir(s, o))
             r2 == RmTree(r1.fs, CoverageSubdir(s, o))
         IN  IF r1.raised THEN r1
             ELSE IF r2.raised THEN r2
             ELSE RemoveContigTracks(s, uids \ {o}, r2.fs)

\* get_de_novo_variants(sample_alignment): [] when the reference genome never
\* had INFO_METHOD recorded, else the sample's variants whose INFO_METHOD is
\* one of CUSTOM_SV_METHODS.
\* A version that returns the sample's variants of every calling method.
GetVariantsOfSample(s, vs, hasKey) ==
    IF ~hasKey THEN {}
    ELSE {v \in vs : v.sample = s}

GetDeNovoVariants(s, vs, hasKey) ==
    IF ~hasKey THEN {}
    ELSE {v \in vs : v.sample = s /\ v.method \in CUSTOM_SV_METHODS}

\* dataset_set.filter(type__in=types).delete()
DeleteDatasets(ds, types) == [t \in DOMAIN ds |-> IF t \in types THEN 0 ELSE ds[t]]

\* clean_up_previous_runs_of_sv_calling_pipeline(sample_alignment), as a
\* function of the data it reads: the data it leaves behind and whether it
\* raised. The Contig delete is committed before the track directories are
\* removed, so a raise there leaves the later deletions undone.
\* A cleanup that leaves the Contigs and their tracks alone and deletes the
\* rest.
CleanUpKeepsContigs(s, cs, ds, vs, hasKey, fs) ==
    [contigs |-> cs,
     datasets |-> DeleteDatasets(ds, Range(STRUCTURAL_VARIANT_VCF_DATASETS)
                                        \cup Range(STRUCTURAL_VARIANT_BAM_DATASETS)
                                        \cup {"MOBILE_ELEMENT_FASTA"}),
     variants |-> vs \ GetDeNovoVariants(s, vs, hasKey),
     fsDirs |-> fs \ {AssemblyDir(s)}, raised |-> FALSE]

\* A cleanup that leaves the candidate VCF datasets in place.
CleanUpKeepsVcfs(s, cs, ds, vs, hasKey, fs) ==
    LET tracks == RemoveContigTracks(s, {c.uid : c \in cs}, fs)
        ds2 == DeleteDatasets(ds, Range(STRUCTURAL_VARIANT_BAM_DATASETS))
        ds3 == DeleteDatasets(ds2, {"MOBILE_ELEMENT_FASTA"})
    IN  IF tracks.raised
        THEN [contigs |-> {}, datasets |-> ds, variants |-> vs,
              fsDirs |-> tracks.fs, raised |-> TRUE]
        ELSE [contigs |-> {}, datasets |-> ds3,
              variants |-> vs \ GetDeNovoVariants(s, vs, hasKey),
              fsDirs |-> tracks.fs \ {AssemblyDir(s)}, raised |-> FALSE]

CleanUp(s, cs, ds, vs, hasKey, fs) ==
    LET tracks == RemoveContigTracks(s, {c.uid : c \in cs}, fs)
        ds1 == DeleteDatasets(ds, Range(STRUCTURAL_VARIANT_VCF_DATASETS))
        ds2 == DeleteDatasets(ds1, Range(STRUCTURAL_VARIANT_BAM_DATASETS))
        ds3 == DeleteDatasets(ds2, {"MOBILE_ELEMENT_FASTA"})
    IN  IF tracks.raised
        THEN [contigs |-> {}, datasets |-> ds, variants |-> vs,
              fsDirs |-> tracks.fs, raised |-> TRUE]
        ELSE [contigs |-> {}, datasets |-> ds3,
              variants |-> vs \ GetDeNovoVariants(s, vs, hasKey),
              fsDirs |-> tracks.fs \ {AssemblyDir(s)}, raised |-> FALSE]

\* What a cleanup of sample s is about: its Contigs, Datasets, Variants and
\* directories.
SampleData(s) ==
    [contigs |-> contigs[s], datasets |-> datasets[s],
     variants |-> {v \in variants : v.sample = s},
     dirs |-> {d \in fsDirs : d.sample = s}]

\* -------------------------------------------------- evidence (SV read classes)
\* _get_or_create_sv_dataset(key), on the number n of Datasets of type key the
\* sample has: the count afterwards, whether an assertion failed, and what
\* was done in order ("delete" the existing Dataset, "generate" the category's
\* file, "add" a Dataset). Every key has a generator.
\* A version that generates and adds whatever exists.
GetOrCreateSvDatasetAlways(n, overwrite) ==
    [n |-> n + 1, raised |-> FALSE, ops |-> << "generate", "add" >>]

GetOrCreateSvDataset(n, overwrite) ==
    IF n > 0 /\ ~overwrite
    THEN [n |-> n, raised |-> n # 1, ops |-> << >>]
    ELSE IF n > 0 /\ n # 1
    THEN [n |-> n, raised |-> TRUE, ops |-> << >>]
    ELSE IF n > 0
    THEN [n |-> 1, raised |-> FALSE, ops |-> << "delete", "generate", "add" >>]
    ELSE [n |-> 1, raised |-> FALSE, ops |-> << "generate", "add" >>]

\* default_sv_indicant_classes.update(input_sv_indicant_classes)
UpdateClasses(input) ==
    [k \in DOMAIN DefaultSvIndicantClasses |->
        IF k \in DOMAIN input THEN input[k] ELSE DefaultSvIndicantClasses[k]]

\* The operations ops done for category key, as entries of the log.
Tagged(key, ops) == [j \in DOMAIN ops |-> << key, ops[j] >>]

\* The loop 'for key in sv_indicant_keys' from index i on: the datasets it
\* leaves, the list sv_bams_list it builds and the log of what was done.
\* The loop taken over every key, whatever its toggle.
RECURSIVE AggregateAllSvIndicants(_, _, _, _, _, _)
AggregateAllSvIndicants(i, ds, classes, overwrite, bams, log) ==
    IF i > Len(STRUCTURAL_VARIANT_BAM_DATASETS)
    THEN [ds |-> ds, raised |-> FALSE, bams |-> bams, log |-> log]
    ELSE LET key == STRUCTURAL_VARIANT_BAM_DATASETS[i]
             r == GetOrCreateSvDataset(ds[key], overwrite)
         IN  IF r.raised THEN [ds |-> ds, raised |-> TRUE, bams |-> bams, log |-> log]
             ELSE AggregateAllSvIndicants(i + 1, [ds EXCEPT ![key] = r.n], classes,
                                          overwrite, Append(bams, key),
                                          log \o Tagged(key, r.ops))

RECURSIVE AggregateSvIndicants(_, _, _, _, _, _)
AggregateSvIndicants(i, ds, classes, overwrite, bams, log) ==
    IF i > Len(STRUCTURAL_VARIANT_BAM_DATASETS)
    THEN [ds |-> ds, raised |-> FALSE, bams |-> bams, log |-> log]
    ELSE LET key == STRUCTURAL_VARIANT_BAM_DATASETS[i]
             r == GetOrCreateSvDataset(ds[key], overwrite)
         IN  IF ~classes[key]
             THEN AggregateSvIndicants(i + 1, ds, classes, overwrite, bams, log)
             ELSE IF r.raised THEN [ds |-> ds, raised |-> TRUE, bams |-> bams, log |-> log]
             ELSE AggregateSvIndicants(i + 1, [ds EXCEPT ![key] = r.n], classes,
                                       overwrite, Append(bams, key),
                                       log \o Tagged(key, r.ops))

\* get_sv_indicating_reads(sample_alignment, input_sv_indicant_classes,
\* overwrite) on the sample's datasets: the source alignment is read, the
\* enabled categories are gathered, and the BWA_DISCORDANT dataset is fetched
\* with dataset_set.get for its track (which raises unless exactly one exists).
GetSvIndicatingReads(ds, input, overwrite) ==
    LET agg == AggregateSvIndicants(1, ds, UpdateClasses(input), overwrite, << >>, << >>)
    IN  IF ds["BWA_ALIGN"] = 0
        THEN [ds |-> ds, raised |-> TRUE, bams |-> << >>, log |-> << >>]
        ELSE IF agg.raised THEN agg
        ELSE [ds |-> agg.ds, raised |-> agg.ds["BWA_DISCORDANT"] # 1, bams |-> agg.bams,
              log |-> agg.log]

\* generate_contigs lines 220-247: the BWA_FOR_DE_NOVO_ASSEMBLY dataset is
\* replaced when overwrite is set and created when there is none.
ForAssemblyDataset(ds, overwrite) ==
    LET n == ds["BWA_FOR_DE_NOVO_ASSEMBLY"]
        kept == IF overwrite /\ n > 0 THEN n - 1 ELSE n
    IN  IF overwrite \/ n = 0
        THEN [ds EXCEPT !["BWA_FOR_DE_NOVO_ASSEMBLY"] = kept + 1]
        ELSE ds

\* ------------------------------------------------------------------ velvet
\* _run_velvet(dir, ...): velveth through subprocess.check_call, then velvetg
\* through subprocess.check_call; check_call raises on a nonzero status.
\* hRet, gRet are the statuses the two binaries return; dir is 0 for the
\* sample's assembly directory and a contig's ordinal for its own directory.
\* Both binaries run through subprocess.call, which returns the status and
\* does not raise.
RunVelvetUnchecked(dir, hRet, gRet) ==
    [calls |-> << <<"velveth", dir, hRet>>, <<"velvetg", dir, gRet>> >>, raised |-> FALSE]

RunVelvet(dir, hRet, gRet) ==
    IF hRet # 0
    THEN [calls |-> << <<"velveth", dir, hRet>> >>, raised |-> TRUE]
    ELSE [calls |-> << <<"velveth", dir, hRet>>, <<"velvetg", dir, gRet>> >>,
          raised |-> gRet # 0]

\* str(velvet_opts[group].get(key, None)): the value of the option, 'None'
\* for a key the dict has not.
OptStr(opts, x) == IF opts[x] = Absent THEN [src |-> "None", val |-> 0] ELSE opts[x]

\* A word the command line has whatever the options are; 'no' is 0 and
\* 'yes' is 1.
Fixed(v) == [src |-> "fixed", val |-> v]

\* The options of the velveth command: the hash length, the other velveth
\* keys of the dict (it has none), then -bam -shortPaired and the BAM.
VelvethOpts(opts) ==
    << [flag |-> "hash_length", value |-> OptStr(opts, << "velveth", "hash_length" >>)],
       [flag |-> "-bam", value |-> Fixed(1)],
       [flag |-> "-shortPaired", value |-> Fixed(1)] >>

\* An argument list that leaves scaffolding on and takes the coverage cutoff
\* from the expected coverage.
VelvetgArgListScaffolding(opts) ==
    << [flag |-> "-ins_length", value |-> OptStr(opts, << "velvetg", "ins_length" >>)],
       [flag |-> "-exp_cov", value |-> OptStr(opts, << "velvetg", "exp_cov" >>)],
       [flag |-> "-ins_length_sd", value |-> OptStr(opts, << "velvetg", "ins_length_sd" >>)],
       [flag |-> "-cov_cutoff", value |-> OptStr(opts, << "velvetg", "exp_cov" >>)],
       [flag |-> "-min_contig_lgth",
        value |-> OptStr(opts, << "velvetg", "min_contig_lgth" >>)],
       [flag |-> "-read_trkg", value |-> Fixed(1)] >>

\* The arg_list of the velvetg command after the binary and the directory.
VelvetgArgList(opts) ==
    << [flag |-> "-ins_length", value |-> OptStr(opts, << "velvetg", "ins_length" >>)],
       [flag |-> "-exp_cov", value |-> OptStr(opts, << "velvetg", "exp_cov" >>)],
       [flag |-> "-scaffolding", value |-> Fixed(0)],
       [flag |-> "-ins_length_sd", value |-> OptStr(opts, << "velvetg", "ins_length_sd" >>)],
       [flag |-> "-cov_cutoff", value |-> OptStr(opts, << "velvetg", "cov_cutoff" >>)],
       [flag |-> "-min_contig_lgth",
        value |-> OptStr(opts, << "velvetg", "min_contig_lgth" >>)],
       [flag |-> "-read_trkg", value |-> Fixed(1)] >>

\* The commands _run_velvet issues, in order, each with the directory it
\* works on, its options and the status it returned.
RunVelvetCommands(dir, opts, hRet, gRet) ==
    LET calls == RunVelvet(dir, hRet, gRet).calls
    IN  [j \in DOMAIN calls |->
            [bin |-> calls[j][1], dir |-> calls[j][2], ret |-> calls[j][3],
             args |-> IF calls[j][1] = "velveth" THEN VelvethOpts(opts)
                      ELSE VelvetgArgList(opts)]]

\* Strings are sequences of character codes. str(i) of a natural number.
RECURSIVE Str(_)
Str(i) == IF i < 10 THEN << 48 + i >> ELSE Append(Str(i \div 10), 48 + (i % 10))

\* k * '0'
Zeros(k) == [j \in 1..k |-> 48]

\* digits of assemble_with_velvet for n records: len(str(len(records))) + 1.
Digits(n) == Len(Str(n)) + 1

\* A label that is the ordinal without leading zeros.
ContigLabelUnpadded(label, i, digits) == label \o << 95 >> \o Str(i)

\* contig_label of the i-th record: '%s_%s' of the sample label and the
\* ordinal after digits - len(str(i)) zeros.
ContigLabel(label, i, digits) ==
    LET leading_zeros == digits - Len(Str(i))
    IN  label \o << 95 >> \o Zeros(leading_zeros) \o Str(i)

\* The labels of the Contigs assemble_with_velvet creates for n records, in
\* file order.
ContigLabels(label, n) == [i \in 1..n |-> ContigLabel(label, i, Digits(n))]

\* _extract_single_node_from_contig_reassembly(contig) on the number of
\* records of the reassembly: None for more than one record, records[0]
\* otherwise, which raises IndexError on an empty list.
\* A version that takes records[0] however many records there are.
ExtractFirstNode(nRecords) ==
    IF nRecords = 0 THEN [raised |-> TRUE, record |-> FALSE]
    ELSE [raised |-> FALSE, record |-> TRUE]

ExtractSingleNode(nRecords) ==
    IF nRecords > 1 THEN [raised |-> FALSE, record |-> FALSE]
    ELSE IF nRecords = 0 THEN [raised |-> TRUE, record |-> FALSE]
    ELSE [raised |-> FALSE, record |-> TRUE]

\* Outcomes of the reassembly of one contig: the statuses of its two velvet
\* calls and the number of records in its contigs.fa.
ReasmOutcomes ==
    {[h |-> 1, g |-> 0, n |-> 0], [h |-> 0, g |-> 1, n |-> 0]}
        \cup {[h |-> 0, g |-> 0, n |-> k] : k \in 0..2}

\* seq.split('N') joined again: the sequence without its 'N' characters.
StripGaps(seq) == SelectSeq(seq, LAMBDA c : c # 78)

\* The sequence assemble_with_velvet writes to fasta.fa for a record with the
\* given sequence, when the reassembly's contigs.fa holds the given records:
\* the record's sequence without 'N', replaced by the sequence of the record
\* _extract_single_node_from_contig_reassembly returned, as the file has it.
StoredSequence(original, records) ==
    LET x == ExtractSingleNode(Len(records))
    IN  IF x.raised THEN [raised |-> TRUE, stored |-> << >>]
        ELSE [raised |-> FALSE,
              stored |-> IF x.record THEN records[1] ELSE StripGaps(original)]

\* The loop of assemble_with_velvet over the records, from record i on: the
\* Contig is created first (a new uid, after the base Contigs the sample
\* already has), then reassembled, then its fasta is written and attached.
\* The sequence written is that of the reassembly when
\* _extract_single_node_from_contig_reassembly returned a record, else that
\* of the full-sample record.
RECURSIVE AssembleRecords(_, _, _, _, _, _)
AssembleRecords(i, n, reasm, base, cs, calls) ==
    IF i > n THEN [contigs |-> cs, calls |-> calls, raised |-> FALSE]
    ELSE LET bare == [uid |-> base + i, ord |-> i, meta |-> "original", fasta |-> FALSE,
                      seq |-> "none", placeable |-> FALSE, vccd |-> NoVccd]
             v == RunVelvet(i, reasm[i].h, reasm[i].g)
             x == ExtractSingleNode(reasm[i].n)
             done == [bare EXCEPT !.fasta = TRUE,
                                  !.seq = IF x.record THEN "reassembled" ELSE "original"]
         IN  IF v.raised \/ x.raised
             THEN [contigs |-> cs \cup {bare}, calls |-> calls \o v.calls,
                   raised |-> TRUE]
             ELSE AssembleRecords(i + 1, n, reasm, base, cs \cup {done},
                                  calls \o v.calls)

\* assemble_with_velvet: the full-sample velvet run, then one Contig per
\* record of contigs.fa.
AssembleWithVelvet(hRet, gRet, n, reasm, base) ==
    LET v == RunVelvet(0, hRet, gRet)
    IN  IF v.raised THEN [contigs |-> {}, calls |-> v.calls, raised |-> TRUE]
        ELSE AssembleRecords(1, n, reasm, base, {}, v.calls)

\* ---------------------------------------------------------------- placement
\* What graph_contig_placement returns for a contig list: whether it raised,
\* the ordinals of the placeable contigs, and whether the graph-walk and
\* mobile-element graph-walk lists are non-empty.
PlacementOutcomes(ords) ==
    {[ok |-> FALSE, placeable |-> {}, gw |-> FALSE, me |-> FALSE]}
        \cup [ok : {TRUE}, placeable : SUBSET ords, gw : BOOLEAN, me : BOOLEAN]

AddDataset(ds, t) == [ds EXCEPT ![t] = @ + 1]

\* _length_weighted_coverage(contig)
LengthWeightedCoverage(c) == c.num_bases * c.coverage

\* contig_list.sort(key=_length_weighted_coverage, reverse=True): a stable
\* sort, highest key first, contigs of equal key in the order of the list.
RECURSIVE InsertByCoverage(_, _)
InsertByCoverage(x, q) ==
    IF q = << >> THEN << x >>
    ELSE IF LengthWeightedCoverage(x) > LengthWeightedCoverage(Head(q)) THEN << x >> \o q
    ELSE << Head(q) >> \o InsertByCoverage(x, Tail(q))

\* The list sorted in ascending order and then reversed, which also reverses
\* the contigs of equal key.
RECURSIVE SortAscendingReversed(_)
SortAscendingReversed(q) ==
    IF q = << >> THEN << >>
    ELSE LET rest == SortAscendingReversed(SubSeq(q, 1, Len(q) - 1))
             x == q[Len(q)]
             before == SelectSeq(rest, LAMBDA y :
                           LengthWeightedCoverage(y) > LengthWeightedCoverage(x))
             after == SelectSeq(rest, LAMBDA y :
                           LengthWeightedCoverage(y) <= LengthWeightedCoverage(x))
         IN  before \o << x >> \o after

RECURSIVE SortByLengthWeightedCoverage(_)
SortByLengthWeightedCoverage(q) ==
    IF q = << >> THEN << >>
    ELSE InsertByCoverage(q[Len(q)],
                          SortByLengthWeightedCoverage(SubSeq(q, 1, Len(q) - 1)))

\* evaluate_contigs(contig_list): contig_list[0] raises IndexError on an empty
\* list; the contigs of the placeable group are annotated; each non-empty
\* result group is exported and attached as a dataset.
\* A version that exports and attaches all three groups, empty or not.
EvaluateContigsAllGroups(cs, ds, p) ==
    IF cs = {} \/ ~p.ok THEN [contigs |-> cs, datasets |-> ds, raised |-> TRUE]
    ELSE [contigs |-> {[c EXCEPT !.placeable = (c.ord \in p.placeable)] : c \in cs},
          datasets |-> AddDataset(AddDataset(AddDataset(ds,
                           "VCF_DE_NOVO_ASSEMBLED_CONTIGS"),
                           "VCF_DE_NOVO_ASSEMBLY_GRAPH_WALK"),
                           "VCF_DE_NOVO_ASSEMBLY_ME_GRAPH_WALK"),
          raised |-> FALSE]

EvaluateContigs(cs, ds, p) ==
    IF cs = {} \/ ~p.ok THEN [contigs |-> cs, datasets |-> ds, raised |-> TRUE]
    ELSE LET ds1 == IF p.placeable # {}
                    THEN AddDataset(ds, "VCF_DE_NOVO_ASSEMBLED_CONTIGS") ELSE ds
             ds2 == IF p.gw THEN AddDataset(ds1, "VCF_DE_NOVO_ASSEMBLY_GRAPH_WALK")
                    ELSE ds1
             ds3 == IF p.me THEN AddDataset(ds2, "VCF_DE_NOVO_ASSEMBLY_ME_GRAPH_WALK")
                    ELSE ds2
         IN  [contigs |-> {[c EXCEPT !.placeable = (c.ord \in p.placeable)] : c \in cs},
              datasets |-> ds3, raised |-> FALSE]

\* A sample with no prior run: no Contigs, no SV datasets, no SV variants, no
\* assembly directory.
NoPriorRun(s) ==
    /\ contigs[s] = {}
    /\ \A t \in Range(STRUCTURAL_VARIANT_VCF_DATASETS) \cup Range(STRUCTURAL_VARIANT_BAM_DATASETS) :
           datasets[s][t] = 0
    /\ GetDeNovoVariants(s, variants, TRUE) = {}
    /\ AssemblyDir(s) \notin fsDirs

\* ----------------------------------------------------------- orchestration
\* sorted(sample_alignment_list, key=lambda x: x.experiment_sample.label):
\* a stable insertion of each element in turn.
RECURSIVE InsertByLabel(_, _)
InsertByLabel(x, q) ==
    IF q = << >> THEN << x >>
    ELSE IF Label(x) < Label(Head(q)) THEN << x >> \o q
    ELSE << Head(q) >> \o InsertByLabel(x, Tail(q))

RECURSIVE SortedByLabel(_)
SortedByLabel(q) ==
    IF q = << >> THEN << >>
    ELSE InsertByLabel(q[Len(q)], SortedByLabel(SubSeq(q, 1, Len(q) - 1)))

\* get_sv_caller_async_result: the order in which the three task lists are
\* built, which is the order of the chain of parse tasks.
\* The task lists built in the order of the argument.
GetSvCallerAsyncResultUnsorted(list) == list

GetSvCallerAsyncResult(list) == SortedByLabel(list)

InBatch(s) == s \in Range(batch)

\* chord(header)(body): the header tasks are the generate_contigs and the
\* coverage-deletion tasks of every sample of the batch; the body is applied
\* once every header task has returned, and not at all when one has raised.
HeaderFinished ==
    \A s \in Range(batch) : genPc[s] \in {"done", "failed"} /\ covPc[s] \in {"done", "failed"}

\* A body applied as soon as the batch exists, whatever the header tasks do.
ChordBodyAppliedAtOnce == batch # << >>

\* A header that holds the generate_contigs tasks only.
ChordBodyAppliedAfterContigs ==
    batch # << >> /\ \A s \in Range(batch) : genPc[s] = "done"

ChordBodyApplied ==
    batch # << >> /\ \A s \in Range(batch) : genPc[s] = "done" /\ covPc[s] = "done"

\* chain(parse_vcf_tasks): the k-th task is applied when the (k-1)-th has
\* returned; a task that raises ends the chain.
ChainNext(k) ==
    /\ k \in DOMAIN batch
    /\ parsePc[batch[k]] = "waiting"
    /\ k > 1 => parsePc[batch[k - 1]] = "done"

\* No task of the batch can take a further step.
Settled ==
    /\ HeaderFinished
    /\ ChordBodyApplied =>
          \A k \in DOMAIN batch :
              /\ parsePc[batch[k]] # "running"
              /\ ~ChainNext(k)

\* The sample_alignment_list arguments: the non-empty lists of distinct samples.
SampleLists ==
    {q \in UNION {[1..n -> Samples] : n \in 1..NumSamples} :
        \A i, j \in DOMAIN q : i # j => q[i] # q[j]}

\* The variants of the samples that another variant caller has saved before
\* the first call of this pipeline; its records carry no INFO_METHOD of
\* CUSTOM_SV_METHODS.
OtherCallerVariants == {[sample |-> s, method |-> "FREEBAYES", contig |-> 0] : s \in Samples}

Init ==
    /\ status = [s \in Samples |-> "NONE"]
    /\ contigs = [s \in Samples |-> {}]
    /\ datasets = [s \in Samples |-> [t \in DatasetTypes |-> IF t = "BWA_ALIGN" THEN 1 ELSE 0]]
    /\ variants = OtherCallerVariants
    /\ keyMapMethod = FALSE
    /\ fsDirs = {}
    /\ runPc = "idle"
    /\ runList = << >>
    /\ runIdx = 0
    /\ runCleaned = {}
    /\ runs = 0
    /\ batch = << >>
    /\ genPc = [s \in Samples |-> "none"]
    /\ covPc = [s \in Samples |-> "none"]
    /\ parsePc = [s \in Samples |-> "none"]
    /\ velvetLog = [s \in Samples |-> << >>]
    /\ cleanHist = NoHist
    /\ genRes = [s \in Samples |-> NoGen]
    /\ firstRun = [s \in Samples |-> NoRun]
    /\ callHist = NoCall
    /\ evid = NoEvid
    /\ directCalls = 0
    /\ ranked = NoRanked
    /\ runArgs = DefaultRunArgs
    /\ velvetDefaults = DEFAULT_VELVET_OPTS
    /\ trackList = {}
    /\ kmer = NoKmer
    /\ velvetRun = NoVelvetRun
    /\ labelRun = NoLabelRun
    /\ seqRun = NoSeqRun

\* run_de_novo_assembly_pipeline(sample_alignment_list) is called; the tasks
\* of an earlier call have all ended.
RunStart(list, args) ==
    /\ runPc \in {"idle", "raised"}
    /\ Settled
    /\ runs < MaxRuns
    /\ runPc' = "clean"
    /\ runList' = list
    /\ runIdx' = 1
    /\ runCleaned' = {}
    /\ runs' = runs + 1
    /\ runArgs' = args
    /\ batch' = << >>
    /\ genPc' = [s \in Samples |-> "none"]
    /\ covPc' = [s \in Samples |-> "none"]
    /\ parsePc' = [s \in Samples |-> "none"]
    /\ velvetLog' = [s \in Samples |-> << >>]
    /\ cleanHist' = NoHist
    /\ genRes' = [s \in Samples |-> NoGen]
    /\ UNCHANGED << status, dataVars, firstRun, callVars, extVars >>

\* Applies the result r of CleanUp on sample s to the data.
\* A version whose Contig delete is not restricted to the sample.
ApplyCleanUpAllSamples(s, r) ==
    /\ contigs' = [o \in Samples |-> r.contigs]
    /\ datasets' = [datasets EXCEPT ![s] = r.datasets]
    /\ variants' = r.variants
    /\ fsDirs' = r.fsDirs
    /\ UNCHANGED keyMapMethod

ApplyCleanUp(s, r) ==
    /\ contigs' = [contigs EXCEPT ![s] = r.contigs]
    /\ datasets' = [datasets EXCEPT ![s] = r.datasets]
    /\ variants' = r.variants
    /\ fsDirs' = r.fsDirs
    /\ UNCHANGED keyMapMethod

\* Where the call goes after the cleanup of line 127: an exception of the
\* cleanup is not caught and ends the call.
\* An exception of the cleanup caught and passed over.
AfterCleanupSwallowed(raised) == "setq"

AfterCleanup(raised) == IF raised THEN "raised" ELSE "setq"

\* First loop of run_de_novo_assembly_pipeline, line 127: the cleanup of the
\* sample the loop is at; an exception ends the call.
RunCleanup ==
    /\ runPc = "clean"
    /\ LET s == runList[runIdx]
           r == CleanUp(s, contigs[s], datasets[s], variants, keyMapMethod, fsDirs)
       IN  /\ ApplyCleanUp(s, r)
           /\ runPc' = AfterCleanup(r.raised)
           /\ runCleaned' = IF r.raised THEN runCleaned ELSE runCleaned \cup {s}
    /\ cleanHist' = NoHist
    /\ UNCHANGED << status, runList, runIdx, runs, runArgs, taskVars, histVars, callVars,
                    extVars >>

\* First loop, lines 128-130: set_assembly_status(..., QUEUED, force=True).
RunSetQueued ==
    /\ runPc = "setq"
    /\ LET s == runList[runIdx]
       IN  status' = [status EXCEPT ![s] = SetAssemblyStatus(@, "QUEUED", TRUE)]
    /\ runIdx' = runIdx + 1
    /\ runPc' = IF runIdx = Len(runList) THEN "schedule" ELSE "clean"
    /\ cleanHist' = NoHist
    /\ UNCHANGED << dataVars, runList, runCleaned, runs, runArgs, taskVars, histVars,
                    callVars, extVars >>

\* Lines 134-144: the reference is indexed and the chord is built and applied.
RunSchedule ==
    /\ runPc = "schedule"
    /\ batch' = GetSvCallerAsyncResult(runList)
    /\ genPc' = [s \in Samples |-> IF s \in Range(runList) THEN "pending" ELSE "none"]
    /\ covPc' = [s \in Samples |-> IF s \in Range(runList) THEN "pending" ELSE "none"]
    /\ parsePc' = [s \in Samples |-> IF s \in Range(runList) THEN "waiting" ELSE "none"]
    /\ runPc' = "idle"
    /\ runList' = << >>
    /\ runIdx' = 0
    /\ cleanHist' = NoHist
    /\ UNCHANGED << status, dataVars, runCleaned, runs, runArgs, velvetLog, histVars,
                    callVars, extVars >>

\* ------------------------------------------------------------------- tasks
\* Statuses the velvet binaries of one _run_velvet call can return, cut at the
\* first nonzero one.
VelvetOutcomes == {[h |-> 1, g |-> 0], [h |-> 0, g |-> 1], [h |-> 0, g |-> 0]}

PlacementFails == [ok |-> FALSE, placeable |-> {}, gw |-> FALSE, me |-> FALSE]

ReasmFails(o) == o.h # 0 \/ o.g # 0 \/ o.n = 0

\* Behaviours of the external tools during one generate_contigs call: whether
\* classification works, the statuses of the full-sample velvet calls, the
\* number n of records assembled, the outcome of each reassembly and of the
\* placement. What the call never gets to is fixed, so that each behaviour
\* is listed once.
GenInputs ==
    {[classifyOk |-> FALSE, v |-> [h |-> 0, g |-> 0], n |-> 0, reasm |-> << >>,
      p |-> PlacementFails]}
    \cup {[classifyOk |-> TRUE, v |-> v, n |-> 0, reasm |-> << >>, p |-> PlacementFails] :
              v \in VelvetOutcomes}
    \cup UNION {
          UNION {
             {[classifyOk |-> TRUE, v |-> [h |-> 0, g |-> 0], n |-> n, reasm |-> reasm, p |-> p] :
                 p \in IF \E i \in 1..n : ReasmFails(reasm[i]) THEN {PlacementFails}
                        ELSE PlacementOutcomes(1..n)} :
             reasm \in {q \in [1..n -> ReasmOutcomes] :
                          \A i, j \in 1..n : (i < j /\ ReasmFails(q[i])) => q[j] = q[i]}} :
          n \in 1..MaxContigs}

\* generate_contigs lines 196-213: the status write and the fresh assembly
\* directory.
\* A start of the task that writes no status.
GenStartNoStatus(s) ==
    /\ genPc[s] = "pending"
    /\ fsDirs' = fsDirs \cup {AssemblyDir(s)}
    /\ genPc' = [genPc EXCEPT ![s] = "running"]
    /\ velvetLog' = [velvetLog EXCEPT ![s] = << >>]
    /\ cleanHist' = NoHist
    /\ UNCHANGED << status, contigs, datasets, variants, keyMapMethod, runVars, batch, covPc,
                    parsePc, histVars, callVars, extVars >>

GenStart(s) ==
    /\ genPc[s] = "pending"
    /\ status' = [status EXCEPT ![s] = SetAssemblyStatus(@, "ASSEMBLING", FALSE)]
    /\ fsDirs' = fsDirs \cup {AssemblyDir(s)}
    /\ genPc' = [genPc EXCEPT ![s] = "running"]
    /\ velvetLog' = [velvetLog EXCEPT ![s] = << >>]
    /\ cleanHist' = NoHist
    /\ UNCHANGED << contigs, datasets, variants, keyMapMethod, runVars, batch, covPc, parsePc,
                    histVars, callVars >>
    /\ UNCHANGED extVars

\* utils.jbrowse_util.add_bam_file_track(reference_genome, sample_alignment,
\* dataset_type): the track of the sample's BAM of that type is added to the
\* track list of the reference genome.
AddBamFileTrack(tl, s, type) == tl \cup {[sample |-> s, type |-> type]}

\* generate_contigs lines 216-284 with sv_read_classes = {}, on the sample's
\* datasets ds and the number base of Contigs it already has, for the given
\* behaviour of the external tools, the module's option dict defaults and the
\* caller's input_velvet_opts: the Contigs it creates, the datasets it leaves,
\* whether it raised, whether evaluate_contigs was called and with how many
\* contigs, the option dict handed to assemble_with_velvet (NoOpts when the
\* call does not get there), the module's option dict afterwards and the
\* dataset types add_bam_file_track was called with.
GenerateContigsBody(ds, base, overwrite, classifyOk, v, n, reasm, p, defaults, velvetIn) ==
    LET rd == GetSvIndicatingReads(ds, << >>, overwrite)
        ds2 == ForAssemblyDataset(rd.ds, overwrite)
        a == AssembleWithVelvet(v.h, v.g, n, reasm, base)
        e == EvaluateContigs(a.contigs, ds2, p)
        opts == VelvetOpts(defaults, velvetIn)
        tracks == {"BWA_DISCORDANT"}
                      \cup (IF overwrite \/ rd.ds["BWA_FOR_DE_NOVO_ASSEMBLY"] = 0
                            THEN {"BWA_FOR_DE_NOVO_ASSEMBLY"} ELSE {})
    IN  IF ~classifyOk
        THEN [contigs |-> {}, datasets |-> ds, calls |-> << >>, raised |-> TRUE,
              evaluated |-> FALSE, listLen |-> 0, opts |-> NoOpts, defaults |-> defaults,
              tracks |-> {}]
        ELSE IF rd.raised
        THEN [contigs |-> {}, datasets |-> rd.ds, calls |-> << >>, raised |-> TRUE,
              evaluated |-> FALSE, listLen |-> 0, opts |-> NoOpts, defaults |-> defaults,
              tracks |-> {}]
        ELSE IF a.raised
        THEN [contigs |-> a.contigs, datasets |-> ds2, calls |-> a.calls,
              raised |-> TRUE, evaluated |-> FALSE, listLen |-> 0, opts |-> opts,
              defaults |-> opts, tracks |-> tracks]
        ELSE [contigs |-> e.contigs, datasets |-> e.datasets, calls |-> a.calls,
              raised |-> e.raised, evaluated |-> TRUE,
              listLen |-> Cardinality(a.contigs), opts |-> opts, defaults |-> opts,
              tracks |-> tracks]

\* report_failure_stats wrapper around a task: an exception of the task is
\* recorded as FAILED through set_assembly_status and raised again.
ReportFailure(cur) == SetAssemblyStatus(cur, "FAILED", FALSE)

\* The rest of generate_contigs, to its return (status WAITING_TO_PARSE) or to
\* the exception that ends it. The task is built with
\* generate_contigs.si(sample_alignment), so sv_read_classes and
\* input_velvet_opts are {} and overwrite is True.
GenFinish(s, classifyOk, v, n, reasm, p) ==
    /\ genPc[s] = "running"
    /\ LET r == GenerateContigsBody(datasets[s], Cardinality(contigs[s]), TRUE,
                                    classifyOk, v, n, reasm, p, velvetDefaults, NoOpts)
       IN  /\ contigs' = [contigs EXCEPT ![s] = @ \cup r.contigs]
           /\ velvetDefaults' = r.defaults
           /\ trackList' = trackList \cup UNION {AddBamFileTrack({}, s, x) : x \in r.tracks}
           /\ genRes' = [genRes EXCEPT ![s] =
                            [called |-> TRUE, overwrite |-> TRUE,
                             sv_read_classes |-> << >>, input_velvet_opts |-> NoOpts,
                             opts |-> r.opts,
                             evaluated |-> r.evaluated, listLen |-> r.listLen,
                             in |-> [classifyOk |-> classifyOk, v |-> v, n |-> n,
                                     reasm |-> reasm, p |-> p]]]
           /\ datasets' = [datasets EXCEPT ![s] = r.datasets]
           /\ velvetLog' = [velvetLog EXCEPT ![s] = r.calls]
           /\ genPc' = [genPc EXCEPT ![s] = IF r.raised THEN "failed" ELSE "done"]
           /\ status' = [status EXCEPT ![s] =
                            IF r.raised THEN ReportFailure(@)
                            ELSE SetAssemblyStatus(@, "WAITING_TO_PARSE", FALSE)]
    /\ cleanHist' = NoHist
    /\ UNCHANGED << variants, keyMapMethod, fsDirs, runVars, batch, covPc, parsePc, firstRun,
                    callVars, fnVars >>

\* cov_detect_deletion_make_vcf(sample_alignment): on success the coverage
\* VCF is attached to the sample; a failure is recorded as FAILED.
CovRun(s, ok) ==
    /\ covPc[s] = "pending"
    /\ covPc' = [covPc EXCEPT ![s] = IF ok THEN "done" ELSE "failed"]
    /\ datasets' = [datasets EXCEPT ![s] =
                       IF ok THEN AddDataset(@, "VCF_COV_DETECT_DELETIONS") ELSE @]
    /\ status' = [status EXCEPT ![s] = IF ok THEN @ ELSE ReportFailure(@)]
    /\ cleanHist' = NoHist
    /\ UNCHANGED << contigs, variants, keyMapMethod, fsDirs, runVars, batch, genPc,
                    parsePc, velvetLog, histVars, callVars >>
    /\ UNCHANGED extVars

\* parse_variants_from_vcf lines 625-627: the status is written directly.
ParseStart(s) ==
    /\ ChordBodyApplied
    /\ \E k \in DOMAIN batch : batch[k] = s /\ ChainNext(k)
    /\ status' = [status EXCEPT ![s] = "PARSING_VARIANTS"]
    /\ parsePc' = [parsePc EXCEPT ![s] = "running"]
    /\ cleanHist' = NoHist
    /\ UNCHANGED << dataVars, runVars, batch, genPc, covPc, velvetLog, histVars, callVars >>
    /\ UNCHANGED extVars

\* The candidates parse_vcf reads from the placement VCF, which
\* export_contig_list_as_vcf wrote: one per placeable contig, carrying the
\* contig's uid as INFO_contig_uid.
PlacementRecords(cs) ==
    {[method |-> "DE_NOVO_ASSEMBLY", contig |-> c.uid] : c \in {x \in cs : x.placeable}}

\* Lines 644-653: the Contig each candidate with an INFO_contig_uid names gets
\* that candidate's common data as its variant_caller_common_data.
LinkContigs(cs, links) ==
    {IF \E r \in links : r.contig = c.uid
     THEN [c EXCEPT !.vccd = CHOOSE r \in links : r.contig = c.uid]
     ELSE c : c \in cs}

\* parse_variants_from_vcf lines 630-655 on the sample's datasets and contigs:
\* the candidates it saves with their calling methods, the candidates it
\* links a Contig to, and whether it raised (a dataset type present more than
\* once, a failing parse_vcf, or a parsed placement record whose Contig does
\* not exist).
\* A version that parses the first dataset type that exists and stops.
ParseFirstVcfOnly(ds, cs, parseOk) ==
    LET present == {i \in DOMAIN STRUCTURAL_VARIANT_VCF_DATASETS :
                        ds[STRUCTURAL_VARIANT_VCF_DATASETS[i]] > 0}
        first == {i \in present : \A j \in present : i <= j}
        records == UNION {IF STRUCTURAL_VARIANT_VCF_DATASETS[i] = "VCF_DE_NOVO_ASSEMBLED_CONTIGS"
                          THEN PlacementRecords(cs)
                          ELSE {[method |-> MethodOfVcf(STRUCTURAL_VARIANT_VCF_DATASETS[i]),
                                 contig |-> 0]} : i \in first}
    IN  [methods |-> {MethodOfVcf(STRUCTURAL_VARIANT_VCF_DATASETS[i]) : i \in first},
         records |-> records,
         links |-> {r \in records : r.contig # 0},
         raised |-> present # {} /\ ~parseOk]

\* A version that saves the candidates and links no Contig.
ParseVariantsUnlinked(ds, cs, parseOk) ==
    LET present == {t \in Range(STRUCTURAL_VARIANT_VCF_DATASETS) : ds[t] > 0}
    IN  [methods |-> {MethodOfVcf(t) : t \in present},
         records |-> {[method |-> MethodOfVcf(t), contig |-> 0] : t \in present},
         links |-> {},
         raised |-> \/ \E t \in present : ds[t] # 1
                    \/ present # {} /\ ~parseOk
                    \/ "VCF_DE_NOVO_ASSEMBLED_CONTIGS" \in present /\ cs = {}]

ParseVariants(ds, cs, parseOk) ==
    LET present == {t \in Range(STRUCTURAL_VARIANT_VCF_DATASETS) : ds[t] > 0}
        records == {[method |-> MethodOfVcf(t), contig |-> 0] :
                        t \in present \ {"VCF_DE_NOVO_ASSEMBLED_CONTIGS"}}
                   \cup (IF "VCF_DE_NOVO_ASSEMBLED_CONTIGS" \in present
                         THEN PlacementRecords(cs) ELSE {})
    IN  [methods |-> {r.method : r \in records},
         records |-> records,
         links |-> {r \in records : r.contig # 0},
         raised |-> \/ \E t \in present : ds[t] # 1
                    \/ present # {} /\ ~parseOk
                    \/ "VCF_DE_NOVO_ASSEMBLED_CONTIGS" \in present /\ cs = {}]

\* The rest of parse_variants_from_vcf: the variants are saved and the status
\* is written COMPLETED; an exception leaves the status as it is.
ParseFinish(s, parseOk) ==
    /\ parsePc[s] = "running"
    /\ LET r == ParseVariants(datasets[s], contigs[s], parseOk)
       IN  IF r.raised
           THEN /\ parsePc' = [parsePc EXCEPT ![s] = "failed"]
                /\ UNCHANGED << status, contigs, variants, keyMapMethod, firstRun >>
           ELSE /\ parsePc' = [parsePc EXCEPT ![s] = "done"]
                /\ variants' = variants \cup {[sample |-> s, method |-> x.method,
                                                contig |-> x.contig] : x \in r.records}
                /\ contigs' = [contigs EXCEPT ![s] = LinkContigs(contigs[s], r.links)]
                /\ keyMapMethod' = (keyMapMethod \/ r.methods # {})
                /\ status' = [status EXCEPT ![s] = "COMPLETED"]
                /\ firstRun' =
                      IF firstRun[s] # NoRun THEN firstRun
                      ELSE [firstRun EXCEPT ![s] =
                              [run |-> runs, contigs |-> Cardinality(contigs[s]),
                               variants |-> Cardinality(GetDeNovoVariants(s, variants', TRUE)),
                               in |-> genRes[s].in]]
    /\ cleanHist' = NoHist
    /\ UNCHANGED << datasets, fsDirs, runVars, batch, genPc, covPc, velvetLog, genRes,
                    callVars >>
    /\ UNCHANGED extVars

\* A direct call of clean_up_previous_runs_of_sv_calling_pipeline(s) while no
\* pipeline call and no task is running.
CleanupCall(s) ==
    /\ runPc \in {"idle", "raised"}
    /\ Settled
    /\ LET r == CleanUp(s, contigs[s], datasets[s], variants, keyMapMethod, fsDirs)
       IN  /\ ApplyCleanUp(s, r)
           /\ cleanHist' =
                 [sample |-> s,
                  n |-> IF cleanHist.sample = s THEN 2 ELSE 1,
                  raised |-> r.raised,
                  fresh |-> NoPriorRun(s),
                  hadContig |-> contigs[s] # {},
                  changed |-> SampleData(s) #
                                 [contigs |-> r.contigs, datasets |-> r.datasets,
                                  variants |-> {x \in r.variants : x.sample = s},
                                  dirs |-> {d \in r.fsDirs : d.sample = s}]]
    /\ UNCHANGED << status, runVars, taskVars, histVars, callVars >>
    /\ UNCHANGED extVars

\* A direct call generate_contigs(s, input_velvet_opts=velvetIn,
\* overwrite=overwrite), outside any
\* pipeline call, for the given behaviour of the external tools: the whole
\* function, from the ASSEMBLING write to the WAITING_TO_PARSE write or the
\* exception that report_failure_stats records. The direct calls of the two
\* functions are explored apart: this one on a sample that
\* get_sv_indicating_reads was not called on directly.
GenerateContigsCall(s, overwrite, in, velvetIn) ==
    /\ runPc \in {"idle", "raised"}
    /\ Settled
    /\ directCalls < MaxCalls
    /\ ~evid.called
    /\ LET r == GenerateContigsBody(datasets[s], Cardinality(contigs[s]), overwrite,
                                    in.classifyOk, in.v, in.n, in.reasm, in.p,
                                    velvetDefaults, velvetIn)
           st == SetAssemblyStatus(status[s], "ASSEMBLING", FALSE)
           again == /\ callHist.n >= 1 /\ ~callHist.raised
                    /\ callHist.in = in /\ callHist.overwrite = overwrite
       IN  /\ status' = [status EXCEPT ![s] =
                            IF r.raised THEN ReportFailure(st)
                            ELSE SetAssemblyStatus(st, "WAITING_TO_PARSE", FALSE)]
           /\ fsDirs' = fsDirs \cup {AssemblyDir(s)}
           /\ contigs' = [contigs EXCEPT ![s] = @ \cup r.contigs]
           /\ datasets' = [datasets EXCEPT ![s] = r.datasets]
           /\ velvetLog' = [velvetLog EXCEPT ![s] = r.calls]
           /\ velvetDefaults' = r.defaults
           /\ trackList' = trackList \cup UNION {AddBamFileTrack({}, s, x) : x \in r.tracks}
           /\ genRes' = [genRes EXCEPT ![s] =
                            [called |-> TRUE, overwrite |-> overwrite,
                             sv_read_classes |-> << >>, input_velvet_opts |-> velvetIn,
                             opts |-> r.opts,
                             evaluated |-> r.evaluated, listLen |-> r.listLen, in |-> in]]
           /\ callHist' =
                 [n |-> IF again THEN 2 ELSE 1, overwrite |-> overwrite,
                  raised |-> r.raised, in |-> in,
                  changed |-> \/ contigs[s] \cup r.contigs # contigs[s]
                              \/ r.datasets # datasets[s]]
    /\ evid' = NoEvid
    /\ ranked' = NoRanked
    /\ cleanHist' = NoHist
    /\ directCalls' = directCalls + 1
    /\ UNCHANGED << variants, keyMapMethod, runVars, batch, genPc, covPc, parsePc, firstRun,
                    fnVars >>

\* The caller's input_sv_indicant_classes: for each set of categories, the
\* dict that gives each of them the opposite of its default.
ToggleInputs ==
    {[k \in D |-> ~DefaultSvIndicantClasses[k]] :
        D \in SUBSET Range(STRUCTURAL_VARIANT_BAM_DATASETS)}

\* A direct call get_sv_indicating_reads(s, input, overwrite), when no direct
\* generate_contigs call has been made.
GetSvIndicatingReadsCall(s, input, overwrite) ==
    /\ runPc \in {"idle", "raised"}
    /\ Settled
    /\ directCalls < MaxCalls
    /\ callHist = NoCall
    /\ LET r == GetSvIndicatingReads(datasets[s], input, overwrite)
       IN  /\ datasets' = [datasets EXCEPT ![s] = r.ds]
           /\ trackList' = IF r.raised THEN trackList
                           ELSE AddBamFileTrack(trackList, s, "BWA_DISCORDANT")
           /\ evid' =
                 [called |-> TRUE, sample |-> s, overwrite |-> overwrite,
                  raised |-> r.raised,
                  existed |-> {k \in Range(STRUCTURAL_VARIANT_BAM_DATASETS) :
                                 datasets[s][k] > 0},
                  input |-> input, classes |-> UpdateClasses(input), bams |-> r.bams,
                  log |-> r.log]
    /\ callHist' = NoCall
    /\ ranked' = NoRanked
    /\ cleanHist' = NoHist
    /\ directCalls' = directCalls + 1
    /\ UNCHANGED << status, contigs, variants, keyMapMethod, fsDirs, runVars, taskVars,
                    histVars, velvetDefaults, fnVars >>

\* The num_bases and coverage values of the contigs of a contig list (coverage
\* in whole units); contigs of equal values have equal products.
NumBases == {500, 1000, 2000}
Coverages == {3, 10, 25}

\* The contig lists: contig i of a list is the i-th one created.
ContigLists ==
    UNION {[1..n -> [num_bases : NumBases, coverage : Coverages]] : n \in 0..MaxListLen}

\* The Contig objects of a list: the list position is the contig's identity.
ListContigs(list) ==
    [i \in DOMAIN list |->
        [id |-> i, num_bases |-> list[i].num_bases, coverage |-> list[i].coverage]]

\* What graph_contig_placement does in a direct evaluate_contigs call: it
\* raises, finds nothing, or finds every contig placeable.
RankPlacements(n) ==
    {PlacementFails, [ok |-> TRUE, placeable |-> {}, gw |-> FALSE, me |-> FALSE],
     [ok |-> TRUE, placeable |-> 1..n, gw |-> FALSE, me |-> FALSE]}

\* A direct call evaluate_contigs(contig_list) on contigs of sample s, as the
\* first thing done to the sample: the sort, the placement of the sorted
\* list, the datasets of the non-empty groups.
EvaluateContigsCall(s, list, p) ==
    /\ runPc = "idle"
    /\ runs = 0
    /\ directCalls = 0
    /\ LET sorted == SortByLengthWeightedCoverage(ListContigs(list))
           cs == {[uid |-> i, ord |-> i, meta |-> "original", fasta |-> TRUE,
                   seq |-> "original", placeable |-> FALSE, vccd |-> NoVccd] : i \in DOMAIN list}
           e == EvaluateContigs(cs, datasets[s], p)
       IN  /\ datasets' = [datasets EXCEPT ![s] = e.datasets]
           /\ ranked' = [called |-> TRUE, raised |-> e.raised, in |-> ListContigs(list),
                         out |-> sorted,
                         placeable |-> {c.ord : c \in {x \in e.contigs : x.placeable}}]
    /\ callHist' = NoCall
    /\ evid' = NoEvid
    /\ cleanHist' = NoHist
    /\ directCalls' = directCalls + 1
    /\ UNCHANGED << status, contigs, variants, keyMapMethod, fsDirs, runVars, taskVars,
                    histVars >>
    /\ UNCHANGED extVars

\* The behaviours of the external tools that batch runs are explored with:
\* the full-sample velveth call fails, the velvetg call of the first contig's
\* reassembly fails, or one contig is assembled, reassembled and placed.
BatchInputs ==
    {i \in GenInputs :
        \/ i.n = 0 /\ i.v.h # 0
        \/ i.n = 1 /\ i.reasm[1].h = 0 /\ i.reasm[1].g # 0
        \/ i.n = 1 /\ i.reasm[1].n = 1 /\ i.p.ok /\ i.p.placeable # {} /\ ~i.p.gw /\ ~i.p.me}

\* kmer_coverage(C, L, k): C * (L - k + 1) / float(L), a division of real
\* numbers, given as the fraction num / den.
\* The division in integers, which cuts the fractional part off.
KmerCoverageTruncated(C, L, k) == [num |-> (C * (L - k + 1)) \div L, den |-> 1]

KmerCoverage(C, L, k) == [num |-> C * (L - k + 1), den |-> L]

\* A call kmer_coverage(C, L, k).
KmerCoverageCall(C, L, k) ==
    /\ runPc = "idle"
    /\ runs = 0
    /\ directCalls = 0
    /\ ~kmer.called
    /\ kmer' = [called |-> TRUE, C |-> C, L |-> L, k |-> k, out |-> KmerCoverage(C, L, k)]
    /\ UNCHANGED << status, dataVars, runVars, taskVars, cleanHist, histVars, callVars,
                    velvetDefaults, trackList, velvetRun, labelRun, seqRun >>

\* A call _run_velvet(dir, opts, bam) in which velveth returns hRet and
\* velvetg, when it is run, gRet.
RunVelvetCall(dir, opts, hRet, gRet) ==
    /\ runPc = "idle"
    /\ runs = 0
    /\ directCalls = 0
    /\ ~velvetRun.called
    /\ velvetRun' = [called |-> TRUE, dir |-> dir, opts |-> opts,
                     cmds |-> RunVelvetCommands(dir, opts, hRet, gRet),
                     raised |-> RunVelvet(dir, hRet, gRet).raised]
    /\ UNCHANGED << status, dataVars, runVars, taskVars, cleanHist, histVars, callVars,
                    velvetDefaults, trackList, kmer, labelRun, seqRun >>

\* The labelling loop of assemble_with_velvet on a contigs.fa of n records
\* for a sample with the given label.
AssembleLabelsCall(label, n) ==
    /\ runPc = "idle"
    /\ runs = 0
    /\ directCalls = 0
    /\ ~labelRun.called
    /\ labelRun' = [called |-> TRUE, sample |-> label, n |-> n,
                    labels |-> ContigLabels(label, n)]
    /\ UNCHANGED << status, dataVars, runVars, taskVars, cleanHist, histVars, callVars,
                    velvetDefaults, trackList, kmer, velvetRun, seqRun >>

\* The body of the loop of assemble_with_velvet for one record with the
\* given sequence and the given records of its reassembly.
WriteRecordCall(original, records) ==
    /\ runPc = "idle"
    /\ runs = 0
    /\ directCalls = 0
    /\ ~seqRun.called
    /\ LET r == StoredSequence(original, records)
       IN  seqRun' = [called |-> TRUE, raised |-> r.raised, original |-> original,
                      reassembly |-> records, stored |-> r.stored]
    /\ UNCHANGED << status, dataVars, runVars, taskVars, cleanHist, histVars, callVars,
                    velvetDefaults, trackList, kmer, velvetRun, labelRun >>

RunNext(lists, args) ==
    \/ \E list \in lists : \E a \in args : RunStart(list, a)
    \/ RunCleanup
    \/ RunSetQueued
    \/ RunSchedule

TaskNext(inputs) ==
    \/ \E s \in Samples : GenStart(s)
    \/ \E s \in {x \in Samples : genPc[x] = "running"} : \E in \in inputs :
          GenFinish(s, in.classifyOk, in.v, in.n, in.reasm, in.p)
    \/ \E s \in Samples, ok \in BOOLEAN : CovRun(s, ok)
    \/ \E s \in Samples : ParseStart(s)
    \/ \E s \in Samples, parseOk \in BOOLEAN : ParseFinish(s, parseOk)

\* Pipeline calls on any list of samples.
Next == RunNext(SampleLists, {DefaultRunArgs}) \/ TaskNext(BatchInputs)

Spec == Init /\ [][Next]_vars

\* The same under fair scheduling: a pipeline call that has started goes on
\* to apply its chord, and the task queue runs a task that is ready.
Fairness ==
    /\ WF_vars(RunCleanup \/ RunSetQueued \/ RunSchedule)
    /\ WF_vars(TaskNext(BatchInputs))

SpecFair == Init /\ [][Next]_vars /\ Fairness

\* Pipeline calls and direct cleanup calls on one sample, with every behaviour
\* of the external tools.
NextSample ==
    \/ RunNext({<< 1 >>}, {DefaultRunArgs})
    \/ TaskNext(GenInputs)
    \/ CleanupCall(1)

SpecSample == Init /\ [][NextSample]_vars

\* Direct calls of generate_contigs (with the behaviours of the external tools
\* of BatchInputs) and of get_sv_indicating_reads on one sample.
NextDirect ==
    \/ \E overwrite \in {b \in BOOLEAN : directCalls < MaxCalls}, in \in BatchInputs :
          GenerateContigsCall(1, overwrite, in, NoOpts)
    \/ \E overwrite \in {b \in BOOLEAN : directCalls < MaxCalls}, input \in ToggleInputs :
          GetSvIndicatingReadsCall(1, input, overwrite)

SpecDirect == Init /\ [][NextDirect]_vars

\* The caller's input_velvet_opts: none, a default key, a computed key, and
\* several keys of one or both groups.
VelvetInputs ==
    {NoOpts,
     [NoOpts EXCEPT ![<< "velveth", "hash_length" >>] = Caller(31)],
     [NoOpts EXCEPT ![<< "velvetg", "min_contig_lgth" >>] = Caller(100)],
     [NoOpts EXCEPT ![<< "velvetg", "exp_cov" >>] = Caller(50)],
     [NoOpts EXCEPT ![<< "velvetg", "cov_cutoff" >>] = Caller(10),
                    ![<< "velvetg", "ins_length" >>] = Caller(300),
                    ![<< "velvetg", "ins_length_sd" >>] = Caller(40)],
     [NoOpts EXCEPT ![<< "velveth", "hash_length" >>] = Caller(31),
                    ![<< "velvetg", "read_trkg" >>] = Caller(0),
                    ![<< "velvetg", "min_contig_lgth" >>] = Caller(100)]}

\* The behaviours of the external tools in which a call gets through
\* classification and assembles one contig that is placed.
PlacedInputs == {i \in BatchInputs : i.n = 1 /\ i.reasm[1].n = 1 /\ i.p.ok}

\* Direct calls of generate_contigs on the samples with any input_velvet_opts,
\* in one process.
NextOpts ==
    \E s \in {x \in Samples : directCalls < MaxCalls}, overwrite \in BOOLEAN :
        \E in \in PlacedInputs, velvetIn \in VelvetInputs :
            GenerateContigsCall(s, overwrite, in, velvetIn)

SpecOpts == Init /\ [][NextOpts]_vars

\* The arguments a caller gives run_de_novo_assembly_pipeline after the sample
\* list.
RunArgSets ==
    [sv_read_classes : {<< >>, [k \in {"BWA_SPLIT"} |-> FALSE]},
     input_velvet_opts : {NoOpts, [NoOpts EXCEPT ![<< "velveth", "hash_length" >>] = Caller(31)]},
     overwrite : BOOLEAN]

\* Pipeline calls with any such arguments on lists of the samples, with tasks
\* that get through or fail in classification.
NextArgs ==
    \/ RunNext({<< 1 >>, << 2, 1 >>}, RunArgSets)
    \/ TaskNext(PlacedInputs \cup {i \in BatchInputs : ~i.classifyOk})

SpecArgs == Init /\ [][NextArgs]_vars

\* Pipeline calls on one sample and direct get_sv_indicating_reads calls on it
\* with either overwrite value, in any order.
MixToggles ==
    {<< >>, [k \in {"BWA_PILED"} |-> TRUE], [k \in {"BWA_DISCORDANT"} |-> FALSE]}

NextMix ==
    \/ RunNext({<< 1 >>}, {DefaultRunArgs})
    \/ TaskNext(PlacedInputs \cup {i \in BatchInputs : ~i.classifyOk})
    \/ \E overwrite \in {b \in BOOLEAN : directCalls < MaxCalls}, input \in MixToggles :
          GetSvIndicatingReadsCall(1, input, overwrite)

SpecMix == Init /\ [][NextMix]_vars

\* The option dicts generate_contigs hands to assemble_with_velvet, for a
\* caller that sets any subset of the keys.
CallerDicts ==
    {[x \in VelvetKeys |-> IF x \in S THEN Caller(40) ELSE Absent] : S \in SUBSET VelvetKeys}

VelvetOptDicts == {VelvetOpts(DEFAULT_VELVET_OPTS, in) : in \in CallerDicts}

\* Calls of _run_velvet on the assembly directory (0) and on the directory
\* of a contig.
NextVelvet ==
    \E dir \in {d \in 0..MaxContigs : ~velvetRun.called}, opts \in VelvetOptDicts :
        \E hRet \in 0..1, gRet \in 0..1 : RunVelvetCall(dir, opts, hRet, gRet)

SpecVelvet == Init /\ [][NextVelvet]_vars

\* The sample labels 's' and 's_1'.
SampleLabels == {<< 115 >>, << 115, 95, 49 >>}

\* assemble_with_velvet on assemblies of any number of records.
NextLabel ==
    \E label \in {l \in SampleLabels : ~labelRun.called}, n \in 0..MaxRecords :
        AssembleLabelsCall(label, n)

SpecLabel == Init /\ [][NextLabel]_vars

\* The sequences of 'A' and 'N' of up to MaxSeqLen characters.
Sequences == UNION {[1..k -> {65, 78}] : k \in 1..MaxSeqLen}

\* What a reassembly's contigs.fa can hold: no record, one, or two.
Reassemblies ==
    {<< >>} \cup {<< r >> : r \in Sequences} \cup {<< r, << 65 >> >> : r \in Sequences}

\* assemble_with_velvet on one record of any sequence and any reassembly.
NextSeq ==
    \E original \in {q \in Sequences : ~seqRun.called}, records \in Reassemblies :
        WriteRecordCall(original, records)

SpecSeq == Init /\ [][NextSeq]_vars

\* Calls of kmer_coverage on integers.
NextKmer ==
    \E C \in {c \in 0..MaxCoverage : ~kmer.called} :
        \E L \in (1..MaxTemplate) \cup {300} : \E k \in 1..L :
            KmerCoverageCall(C, L, k)

SpecKmer == Init /\ [][NextKmer]_vars

\* Direct calls of evaluate_contigs on contig lists of one sample.
NextRank ==
    \E s \in {x \in {1} : directCalls = 0} :
        \E list \in ContigLists : \E p \in RankPlacements(Len(list)) :
            EvaluateContigsCall(s, list, p)

SpecRank == Init /\ [][NextRank]_vars

\* ------------------------------------------------------------- properties
Rank(st) ==
    CASE st = "NONE" -> 0
      [] st = "QUEUED" -> 1
      [] st = "ASSEMBLING" -> 2
      [] st = "WAITING_TO_PARSE" -> 3
      [] st = "PARSING_VARIANTS" -> 4
      [] st = "COMPLETED" -> 5
      [] OTHER -> 6

\* A forward move of the run status: to a later state of the sequence, or to
\* FAILED, in both cases from a non-terminal state.
Forward(a, b) == a \notin Terminal /\ Rank(a) < Rank(b)

\* The step is the forced reset of sample s at the start of a pipeline call.
IsReset(s) == runPc = "setq" /\ runList[runIdx] = s /\ status'[s] = "QUEUED"

\* C1: within a pipeline run a sample's status only moves forward along
\* QUEUED, ASSEMBLING, WAITING_TO_PARSE, PARSING_VARIANTS, COMPLETED, or to
\* FAILED from a non-terminal state; it never moves back and never leaves
\* COMPLETED or FAILED. Only the reset that starts a run sets QUEUED.
C1_StatusMovesForward ==
    [][\A s \in Samples :
          status'[s] # status[s] => (IsReset(s) \/ Forward(status[s], status'[s]))]_vars

\* A batch of two samples has run to the end: both are COMPLETED.
C1_Witness ==
    /\ Len(batch) = 2
    /\ \A s \in Range(batch) : status[s] = "COMPLETED" /\ parsePc[s] = "done"

\* The full-sample velveth or velvetg call of the sample's task returned a
\* nonzero status.
AssemblyCallFailed(s) ==
    /\ genPc[s] = "failed"
    /\ \E i \in DOMAIN velvetLog[s] : velvetLog[s][i][2] = 0 /\ velvetLog[s][i][3] # 0

\* C2: in a batch of two samples A and B, when A's external assembly call
\* fails and B's assembly and coverage tasks succeed, B ends COMPLETED and A
\* ends FAILED. Stated on the batch once no task can take a further step.
C2_FailureIsolation ==
    \A a, b \in Samples :
        (/\ a # b /\ InBatch(a) /\ InBatch(b) /\ runPc = "idle"
         /\ Settled
         /\ AssemblyCallFailed(a)
         /\ genPc[b] = "done" /\ covPc[b] = "done" /\ parsePc[b] # "failed")
        => (status[b] = "COMPLETED" /\ status[a] = "FAILED")

\* C3: parse_variants_from_vcf of a sample starts only after both the
\* sample's generate_contigs task and its coverage-deletion task have
\* completed.
C3_ParseAfterBothBranches ==
    \A s \in Samples :
        parsePc[s] \in {"running", "done", "failed"}
            => (genPc[s] = "done" /\ covPc[s] = "done")

\* A parse task is running in a batch of two samples.
C3_Witness ==
    /\ Len(batch) = 2
    /\ \E s \in Range(batch) : parsePc[s] = "running"

\* C4: the parse tasks of a batch never overlap and run in ascending order of
\* sample label: a parse task has started only if the parse task of every
\* sample of the batch with a smaller label has finished.
C4_ParseSequentialInLabelOrder ==
    /\ Cardinality({s \in Samples : parsePc[s] = "running"}) <= 1
    /\ \A s, t \in Range(batch) :
          (parsePc[s] \in {"running", "done", "failed"} /\ Label(t) < Label(s))
              => parsePc[t] \in {"done", "failed"}

\* The second parse task of a batch is running after the first has returned.
C4_Witness ==
    /\ Len(batch) >= 2
    /\ parsePc[batch[1]] = "done"
    /\ parsePc[batch[2]] = "running"
    /\ Label(batch[1]) < Label(batch[2])

\* C5: in run_de_novo_assembly_pipeline a sample is set to QUEUED only after
\* its cleanup has returned, the forced reset yields QUEUED whatever the
\* status was, and the tasks are scheduled only once every sample of the
\* batch has been cleaned and is QUEUED.
C5_QueuedAfterCleanupBeforeTasks ==
    [][/\ \A s \in Samples :
             (status'[s] = "QUEUED" /\ status[s] # "QUEUED")
                 => (runPc = "setq" /\ runList[runIdx] = s /\ s \in runCleaned)
       /\ (runPc = "setq" /\ runIdx' # runIdx)
             => (runList[runIdx] \in runCleaned /\ status'[runList[runIdx]] = "QUEUED")
       /\ batch' # batch /\ batch' # << >>
             => \A s \in Range(batch') : s \in runCleaned /\ status[s] = "QUEUED"
       /\ \A s \in Samples :
             (genPc'[s] # "none" \/ covPc'[s] # "none" \/ parsePc'[s] # "none")
                 => s \in Range(batch')]_vars

\* The call has reset its first sample and is about to reset its second one,
\* whose cleanup has returned and whose status is still COMPLETED.
C5_Witness ==
    /\ runPc = "setq"
    /\ runIdx = 2
    /\ status[runList[1]] = "QUEUED"
    /\ status[runList[2]] = "COMPLETED"
    /\ runList[2] \in runCleaned

\* The velvet calls of the sample's task that returned a nonzero status.
FailedCalls(s) == {i \in DOMAIN velvetLog[s] : velvetLog[s][i][3] # 0}

\* The datasets evaluate_contigs attaches.
PlacementDatasets ==
    {"VCF_DE_NOVO_ASSEMBLED_CONTIGS", "VCF_DE_NOVO_ASSEMBLY_GRAPH_WALK",
     "VCF_DE_NOVO_ASSEMBLY_ME_GRAPH_WALK"}

\* C6: when a velveth or velvetg call of a sample's generate_contigs task
\* returns a nonzero status, the task aborts there without calling velvet
\* again, nothing is ranked or placed, the status is not WAITING_TO_PARSE and
\* the sample is FAILED.
C6_VelvetFailureIsFatal ==
    \A s \in Samples :
        (genPc[s] \in {"done", "failed"} /\ FailedCalls(s) # {})
            => /\ genPc[s] = "failed"
               /\ FailedCalls(s) = {Len(velvetLog[s])}
               /\ \A t \in PlacementDatasets : datasets[s][t] = 0
               /\ status[s] = "FAILED"

\* The full-sample velvetg call of a task returned a nonzero status.
C6_Witness ==
    \E s \in Samples :
        /\ genPc[s] = "failed"
        /\ velvetLog[s] = << <<"velveth", 0, 0>>, <<"velvetg", 0, 1>> >>

\* C7: for a sample whose generate_contigs task failed while its
\* coverage-deletion task succeeded, the parse step is not attempted and the
\* coverage-deletion candidates are still persisted as variants of the sample.
C7_CoverageResultPersisted ==
    \A s \in Samples :
        (/\ InBatch(s) /\ runPc = "idle" /\ Settled
         /\ genPc[s] = "failed" /\ covPc[s] = "done"
         /\ datasets[s]["VCF_COV_DETECT_DELETIONS"] = 1)
        => /\ parsePc[s] = "waiting"
           /\ \E v \in variants : v.sample = s /\ v.method = "COVERAGE"

\* C8: a failure inside parse_variants_from_vcf of one sample leaves the other
\* samples of the batch unaffected: their parse tasks run and they end
\* COMPLETED.
C8_ParseFailureIsolated ==
    \A a \in Samples :
        (/\ InBatch(a) /\ runPc = "idle" /\ Settled
         /\ {s \in Range(batch) : parsePc[s] = "failed"} = {a})
        => \A b \in Range(batch) \ {a} : parsePc[b] = "done" /\ status[b] = "COMPLETED"

\* C9: after a cleanup call on a sample that had at least one Contig, the
\* call has returned and the sample has no Contigs, no candidate VCF
\* dataset, no SV-evidence BAM dataset, no de novo variants and no assembly
\* directory.
C9_CleanupRemovesEverything ==
    (cleanHist.n >= 1 /\ cleanHist.hadContig)
        => (~cleanHist.raised /\ NoPriorRun(cleanHist.sample))

\* C10: a cleanup call on a sample with no prior run raises nothing and
\* changes nothing, and the second of two cleanup calls in a row changes
\* nothing: two calls leave what one call leaves.
C10_CleanupNoOpAndIdempotent ==
    /\ (cleanHist.n >= 1 /\ cleanHist.fresh) => (~cleanHist.raised /\ ~cleanHist.changed)
    /\ cleanHist.n = 2 => ~cleanHist.changed

\* The sample's pipeline run has ended COMPLETED on the input of its first
\* completed run, and nothing has been cleaned up since.
CompletedOnFirstInput(s) ==
    /\ status[s] = "COMPLETED" /\ parsePc[s] = "done"
    /\ cleanHist = NoHist
    /\ firstRun[s] # NoRun
    /\ genRes[s].called /\ genRes[s].in = firstRun[s].in

C12_GenerateContigsIdempotent ==
    (callHist.n = 2 /\ ~callHist.overwrite /\ ~callHist.raised) => ~callHist.changed

\* What the last direct get_sv_indicating_reads call did for category k, in
\* order.
OpsOf(k) ==
    LET sel == SelectSeq(evid.log, LAMBDA e : e[1] = k)
    IN  [j \in DOMAIN sel |-> sel[j][2]]

EnabledKeys == {k \in Range(STRUCTURAL_VARIANT_BAM_DATASETS) : evid.classes[k]}

\* C13: for every enabled evidence category of a get_sv_indicating_reads
\* call: when a dataset of the category existed and overwrite is False, no
\* generator ran and the dataset is kept; when one existed and overwrite is
\* True, it was deleted, then the generator ran, then a dataset was added;
\* when none existed, the generator ran once and one dataset was added.
C13_CategoryGetOrCreate ==
    evid.called =>
        \A k \in EnabledKeys :
            /\ datasets[evid.sample][k] = 1
            /\ (k \in evid.existed /\ ~evid.overwrite) => OpsOf(k) = << >>
            /\ (k \in evid.existed /\ evid.overwrite)
                  => OpsOf(k) = << "delete", "generate", "add" >>
            /\ k \notin evid.existed => OpsOf(k) = << "generate", "add" >>

\* A call with overwrite=True found the dataset of one enabled category and
\* none of another.
C13_Witness ==
    /\ evid.called /\ evid.overwrite
    /\ \E k1, k2 \in EnabledKeys : k1 \in evid.existed /\ k2 \notin evid.existed

\* The toggle of category k in the last direct call: the caller's value when
\* the caller gave one, else the default.
Toggle(k) ==
    IF k \in DOMAIN evid.input THEN evid.input[k] ELSE DefaultSvIndicantClasses[k]

\* C14: in a get_sv_indicating_reads call, whatever the six toggles are
\* (defaults overridden key by key by the caller's input), nothing is done
\* for a disabled category and it is not in the list of files to concatenate,
\* and each enabled category is in that list exactly once.
C14_DisabledCategoriesSkipped ==
    evid.called =>
        \A k \in Range(STRUCTURAL_VARIANT_BAM_DATASETS) :
            Cardinality({j \in DOMAIN evid.bams : evid.bams[j] = k})
                = (IF Toggle(k) THEN 1 ELSE 0)
            /\ (~Toggle(k) => OpsOf(k) = << >>)

\* A call that enables a category that is off by default and disables one
\* that is on by default, with datasets to create.
C14_Witness ==
    /\ evid.called /\ ~evid.raised
    /\ Toggle("BWA_PILED") /\ ~Toggle("BWA_CLIPPED")
    /\ "BWA_PILED" \in Range(evid.bams)
    /\ OpsOf("BWA_PILED") # << >>

\* C15: a Contig whose isolated reassembly yielded exactly one record stores
\* the reassembled sequence, one whose reassembly yielded two or more records
\* stores the original sequence; in both cases its label, coverage and node
\* number are those of the record of the full-sample assembly.
C15_ReassemblyReplacesSequenceOnly ==
    \A s \in Samples :
        (genRes[s].called /\ genRes[s].evaluated) =>
            \A c \in contigs[s] :
                /\ genRes[s].in.reasm[c.ord].n = 1 => c.seq = "reassembled"
                /\ genRes[s].in.reasm[c.ord].n >= 2 => c.seq = "original"
                /\ c.meta = "original"

\* A Contig whose reassembly yielded two records has been written.
C15_Witness ==
    \E s \in Samples :
        /\ genRes[s].called /\ genRes[s].evaluated
        /\ \E c \in contigs[s] :
              genRes[s].in.reasm[c.ord].n = 2 /\ c.fasta /\ c.seq = "original"

\* The reassembly of the sample's i-th contig ran, both velvet calls returned
\* zero, and it yielded no record.
EmptyReassembly(s, i) ==
    /\ genRes[s].called
    /\ i \in 1..genRes[s].in.n
    /\ genRes[s].in.reasm[i].n = 0
    /\ \E j \in DOMAIN velvetLog[s] : velvetLog[s][j] = << "velvetg", i, 0 >>

\* C16: when the isolated reassembly of a contig yields zero records, no
\* error is raised, the contig keeps its original sequence and
\* assemble_with_velvet goes on to the next contig and returns.
C16_EmptyReassemblyDiscarded ==
    \A s \in Samples :
        \A i \in 1..MaxContigs :
            EmptyReassembly(s, i) =>
                /\ genRes[s].evaluated
                /\ \E c \in contigs[s] : c.ord = i /\ c.fasta /\ c.seq = "original"

\* The list of (num_bases, coverage) pairs of a contig list.
Pairs(q) == [j \in DOMAIN q |-> << q[j].num_bases, q[j].coverage >>]

\* C17: the list evaluate_contigs passes on is a permutation of its input
\* list in descending order of num_bases x coverage, contigs of equal product
\* in their input order; (1000,10), (500,25), (2000,3) come out as
\* (500,25), (1000,10), (2000,3).
C17_RankedByLengthWeightedCoverage ==
    ranked.called =>
        /\ Len(ranked.out) = Len(ranked.in)
        /\ \A i \in DOMAIN ranked.in :
              Cardinality({j \in DOMAIN ranked.out : ranked.out[j] = ranked.in[i]}) = 1
        /\ \A j, k \in DOMAIN ranked.out :
              j < k =>
                 \/ LengthWeightedCoverage(ranked.out[j]) > LengthWeightedCoverage(ranked.out[k])
                 \/ /\ LengthWeightedCoverage(ranked.out[j]) = LengthWeightedCoverage(ranked.out[k])
                    /\ ranked.out[j].id < ranked.out[k].id
        /\ Pairs(ranked.in) = << << 1000, 10 >>, << 500, 25 >>, << 2000, 3 >> >>
              => Pairs(ranked.out) = << << 500, 25 >>, << 1000, 10 >>, << 2000, 3 >> >>

\* The list of the example has been ranked and placed.
C17_Witness ==
    /\ ranked.called /\ ~ranked.raised
    /\ Pairs(ranked.in) = << << 1000, 10 >>, << 500, 25 >>, << 2000, 3 >> >>
    /\ Pairs(ranked.out) = << << 500, 25 >>, << 1000, 10 >>, << 2000, 3 >> >>

\* C18: generate_contigs never calls evaluate_contigs with an empty contig
\* list, also when the external assembly produced no contig.
C18_EvaluateNeverOnEmptyList ==
    \A s \in Samples :
        (genRes[s].called /\ genRes[s].evaluated) => genRes[s].listLen >= 1

\* evaluate_contigs has returned in the sample's generate_contigs task of a
\* pipeline run, and nothing has been cleaned up since.
Evaluated(s) ==
    /\ genRes[s].called /\ genRes[s].evaluated
    /\ genPc[s] = "done"
    /\ cleanHist = NoHist

\* The number of datasets of a type attached for a result group.
Attached(nonEmpty) == IF nonEmpty THEN 1 ELSE 0

\* C19: after evaluate_contigs on a freshly cleaned sample, each of the three
\* result groups (placeable contigs, graph-walk candidates, mobile-element
\* graph-walk candidates) has its VCF dataset attached to the sample if and
\* only if it is non-empty, each under its own type and calling method, and
\* exactly the contigs of the placeable group are annotated as placeable.
C19_NonEmptyGroupsExported ==
    \A s \in Samples :
        Evaluated(s) =>
            LET p == genRes[s].in.p
            IN  /\ datasets[s]["VCF_DE_NOVO_ASSEMBLED_CONTIGS"] = Attached(p.placeable # {})
                /\ datasets[s]["VCF_DE_NOVO_ASSEMBLY_GRAPH_WALK"] = Attached(p.gw)
                /\ datasets[s]["VCF_DE_NOVO_ASSEMBLY_ME_GRAPH_WALK"] = Attached(p.me)
                /\ MethodOfVcf("VCF_DE_NOVO_ASSEMBLED_CONTIGS") = "DE_NOVO_ASSEMBLY"
                /\ MethodOfVcf("VCF_DE_NOVO_ASSEMBLY_GRAPH_WALK") = "GRAPH_WALK"
                /\ MethodOfVcf("VCF_DE_NOVO_ASSEMBLY_ME_GRAPH_WALK") = "ME_GRAPH_WALK"
                /\ \A c \in contigs[s] : c.placeable <=> c.ord \in p.placeable

\* evaluate_contigs has returned with a placeable contig, mobile-element
\* candidates and no graph-walk candidate.
C19_Witness ==
    \E s \in Samples :
        /\ Evaluated(s)
        /\ genRes[s].in.p.placeable # {} /\ genRes[s].in.p.me /\ ~genRes[s].in.p.gw
        /\ \E c \in contigs[s] : c.placeable

\* The calling methods of the sample's saved variants.
SavedMethods(s) == {v.method : v \in {x \in variants \ OtherCallerVariants : x.sample = s}}

\* The candidate VCF dataset types that exist for the sample.
ExistingVcfs(s) == {t \in Range(STRUCTURAL_VARIANT_VCF_DATASETS) : datasets[s][t] > 0}

\* C20: when parse_variants_from_vcf of a sample has returned, the saved
\* variants are those of every candidate VCF dataset type that exists for the
\* sample and of no other, each with the calling method of its file; with
\* placement and coverage outputs only, they are the DE_NOVO_ASSEMBLY and the
\* COVERAGE variants.
C20_ParsesExactlyExistingVcfs ==
    \A s \in Samples :
        (parsePc[s] = "done" /\ cleanHist = NoHist) =>
            /\ SavedMethods(s) = {MethodOfVcf(t) : t \in ExistingVcfs(s)}
            /\ ExistingVcfs(s) = {"VCF_DE_NOVO_ASSEMBLED_CONTIGS", "VCF_COV_DETECT_DELETIONS"}
                  => SavedMethods(s) = {"DE_NOVO_ASSEMBLY", "COVERAGE"}

\* A sample with placement and coverage outputs only has been parsed.
C20_Witness ==
    \E s \in Samples :
        /\ parsePc[s] = "done" /\ cleanHist = NoHist
        /\ ExistingVcfs(s) = {"VCF_DE_NOVO_ASSEMBLED_CONTIGS", "VCF_COV_DETECT_DELETIONS"}
        /\ SavedMethods(s) = {"DE_NOVO_ASSEMBLY", "COVERAGE"}

\* The candidates of the sample's existing candidate VCF datasets.
ParsedCandidates(s) ==
    {[sample |-> s, method |-> MethodOfVcf(x), contig |-> 0] :
        x \in ExistingVcfs(s) \ {"VCF_DE_NOVO_ASSEMBLED_CONTIGS"}}
    \cup (IF "VCF_DE_NOVO_ASSEMBLED_CONTIGS" \in ExistingVcfs(s)
          THEN {[sample |-> s, method |-> r.method, contig |-> r.contig] :
                    r \in PlacementRecords(contigs[s])}
          ELSE {})

\* C21: when parse_variants_from_vcf of a sample has returned, every parsed
\* candidate that carries a contig uid is the back-reference of the Contig
\* with that uid, a Contig no candidate names has no back-reference, and every
\* parsed candidate is a saved variant.
C21_CandidatesLinkedToContigs ==
    \A s \in Samples :
        (parsePc[s] = "done" /\ cleanHist = NoHist) =>
            /\ \A v \in ParsedCandidates(s) :
                    v.contig # 0 =>
                        \E c \in contigs[s] :
                            /\ c.uid = v.contig
                            /\ c.vccd = [method |-> v.method, contig |-> v.contig]
            /\ \A c \in contigs[s] :
                    c.vccd # NoVccd =>
                        \E v \in ParsedCandidates(s) :
                            v.contig = c.uid /\ c.vccd.contig = c.uid
            /\ ParsedCandidates(s) \subseteq variants

\* A sample has been parsed whose placement candidate names its Contig and
\* whose coverage candidate names none.
C21_Witness ==
    \E s \in Samples :
        /\ parsePc[s] = "done" /\ cleanHist = NoHist
        /\ \E v \in ParsedCandidates(s) : v.contig # 0
        /\ \E v \in ParsedCandidates(s) : v.contig = 0
        /\ \E c \in contigs[s] : c.vccd # NoVccd

\* C22: the variants a returning cleanup of the pipeline deletes, which are
\* the variants get_de_novo_variants returns for the sample, are the persisted
\* variants of that sample whose method is DE_NOVO_ASSEMBLY, ME_GRAPH_WALK,
\* GRAPH_WALK or COVERAGE, and none when INFO_METHOD was never recorded for
\* the reference genome; no other variant is deleted.
C22_DeNovoVariantsOfSampleAndMethod ==
    [][(runPc = "clean" /\ runPc' = "setq") =>
          /\ variants' \subseteq variants
          /\ variants \ variants' =
                IF keyMapMethod
                THEN {v \in variants :
                        /\ v.sample = runList[runIdx]
                        /\ v.method \in {"DE_NOVO_ASSEMBLY", "ME_GRAPH_WALK", "GRAPH_WALK",
                                          "COVERAGE"}}
                ELSE {}]_vars

\* The cleanup of a sample that had completed a run has returned: none of its
\* SV variants is left, its variant of another caller and the SV variants of
\* another sample are.
C22_Witness ==
    /\ runPc = "setq"
    /\ firstRun[runList[runIdx]] # NoRun
    /\ ~\E v \in variants : v.sample = runList[runIdx] /\ v.method \in CUSTOM_SV_METHODS
    /\ \E v \in variants : v.sample = runList[runIdx] /\ v.method \notin CUSTOM_SV_METHODS
    /\ \E v \in variants : v.sample # runList[runIdx] /\ v.method \in CUSTOM_SV_METHODS

\* C23: the option dict generate_contigs hands to assemble_with_velvet holds
\* the caller's value for every key of input_velvet_opts, and for every other
\* key its computed value (ins_length, ins_length_sd, exp_cov, cov_cutoff) or
\* its module default.
C23_CallerOptionsOverride ==
    \A s \in Samples :
        (genRes[s].called /\ genRes[s].opts # NoOpts) =>
            \A x \in VelvetKeys :
                IF genRes[s].input_velvet_opts[x] # Absent
                THEN genRes[s].opts[x] = genRes[s].input_velvet_opts[x]
                ELSE IF x \in ComputedKeys
                THEN genRes[s].opts[x].src = "computed"
                ELSE genRes[s].opts[x] = DEFAULT_VELVET_OPTS[x]

\* C28: generate_contigs leaves the module's DEFAULT_VELVET_OPTS as the module
\* defines it, and a call without input_velvet_opts hands hash length 21 and
\* minimum contig length 200 to the assembler whatever the earlier calls were
\* given.
C28_DefaultVelvetOptsUnchanged ==
    /\ velvetDefaults = DEFAULT_VELVET_OPTS
    /\ \A s \in Samples :
          (genRes[s].called /\ genRes[s].opts # NoOpts
              /\ genRes[s].input_velvet_opts = NoOpts) =>
                /\ genRes[s].opts[<< "velveth", "hash_length" >>].val = 21
                /\ genRes[s].opts[<< "velvetg", "min_contig_lgth" >>].val = 200

\* C24: kmer_coverage(C, L, k) is the rational number C * (L - k + 1) / L, with
\* no integer truncation, for all integers C >= 0, L > 0 and 0 < k <= L of the
\* range, and kmer_coverage(30, 300, 21) is 28.
C24_KmerCoverageExact ==
    kmer.called =>
        /\ kmer.out.den > 0
        /\ kmer.out.num * kmer.L = kmer.C * (kmer.L - kmer.k + 1) * kmer.out.den
        /\ (kmer.C = 30 /\ kmer.L = 300 /\ kmer.k = 21) => kmer.out.num = 28 * kmer.out.den

\* kmer_coverage has returned a value that is not an integer.
C24_Witness ==
    /\ kmer.called
    /\ kmer.C = 7 /\ kmer.L = 12 /\ kmer.k = 5
    /\ kmer.out.num % kmer.out.den # 0

\* C25: a sample of the batch has the status WAITING_TO_PARSE only when both
\* its generate_contigs task and its coverage-deletion task have finished.
C25_WaitingToParseAfterBothTasks ==
    \A s \in Samples :
        (InBatch(s) /\ status[s] = "WAITING_TO_PARSE") =>
            (genPc[s] = "done" /\ covPc[s] = "done")

\* C26 as stated: a sample of the batch has the status ASSEMBLING only once
\* classification, consolidation, assembly, refinement and ranking have all
\* completed without error.
C26_AssemblingAfterStages ==
    \A s \in Samples :
        (InBatch(s) /\ status[s] = "ASSEMBLING") =>
            (genPc[s] = "done" /\ genRes[s].evaluated)

\* C26: the status changes from QUEUED to ASSEMBLING when the sample's
\* generate_contigs task starts, before any of its stages, and every task that
\* starts on a QUEUED sample makes that change; the status changes to
\* WAITING_TO_PARSE only once classification, consolidation, assembly,
\* refinement and ranking have all completed without error.
C26_AssemblingAtTaskStart ==
    [][\A s \in Samples :
          /\ (status[s] = "QUEUED" /\ status'[s] = "ASSEMBLING") =>
                (genPc[s] = "pending" /\ genPc'[s] = "running" /\ ~genRes'[s].called)
          /\ (status[s] = "QUEUED" /\ genPc[s] = "pending" /\ genPc'[s] = "running") =>
                status'[s] = "ASSEMBLING"
          /\ (status[s] # "WAITING_TO_PARSE" /\ status'[s] = "WAITING_TO_PARSE") =>
                (genPc'[s] = "done" /\ genRes'[s].evaluated)]_vars

\* A sample is ASSEMBLING while its generate_contigs task has started and has
\* completed none of its stages.
C26_Witness ==
    \E s \in Samples :
        /\ InBatch(s) /\ status[s] = "ASSEMBLING"
        /\ genPc[s] = "running" /\ ~genRes[s].called

\* C27: a generate_contigs task of the batch writes nothing that the samples
\* share (the track list of the reference genome, the options of the module)
\* and nothing of another sample (its Contigs, datasets, status).
C27_TasksWriteOwnSampleOnly ==
    [][\A s \in Samples :
          (genPc[s] = "running" /\ genPc'[s] \in {"done", "failed"}) =>
              /\ trackList' = trackList
              /\ velvetDefaults' = velvetDefaults
              /\ \A o \in Samples \ {s} :
                    /\ contigs'[o] = contigs[o]
                    /\ datasets'[o] = datasets[o]
                    /\ status'[o] = status[o]]_vars

\* C29: every generate_contigs task of the batch is called with the
\* sv_read_classes, input_velvet_opts and overwrite that
\* run_de_novo_assembly_pipeline was called with.
C29_PipelineArgumentsForwarded ==
    \A s \in Samples :
        (InBatch(s) /\ genRes[s].called) =>
            /\ genRes[s].sv_read_classes = runArgs.sv_read_classes
            /\ genRes[s].input_velvet_opts = runArgs.input_velvet_opts
            /\ genRes[s].overwrite = runArgs.overwrite

\* C30: under fair scheduling every sample of a started batch eventually has
\* the status COMPLETED or FAILED.
C30_EverySampleTerminates ==
    \A s \in Samples : InBatch(s) ~> (status[s] \in Terminal)

\* The dataset types of which a sample is to have one dataset at most.
SingleDatasetTypes ==
    Range(STRUCTURAL_VARIANT_BAM_DATASETS) \cup {"BWA_FOR_DE_NOVO_ASSEMBLY"}
        \cup Range(STRUCTURAL_VARIANT_VCF_DATASETS)

\* C31: after any sequence of pipeline runs and of direct
\* get_sv_indicating_reads calls with either overwrite value, a sample has at
\* most one dataset of each SV-evidence BAM type, of BWA_FOR_DE_NOVO_ASSEMBLY
\* and of each candidate VCF type.
C31_AtMostOneDatasetPerType ==
    \A s \in Samples : \A x \in SingleDatasetTypes : datasets[s][x] <= 1

\* After a completed run and a later pipeline call, a direct call with
\* overwrite=True has found datasets and left one of each.
C31_Witness ==
    /\ runs >= 2 /\ firstRun[1] # NoRun
    /\ evid.called /\ evid.overwrite /\ ~evid.raised
    /\ "BWA_CLIPPED" \in evid.existed
    /\ datasets[1]["BWA_CLIPPED"] = 1
    /\ datasets[1]["BWA_FOR_DE_NOVO_ASSEMBLY"] = 1
    /\ datasets[1]["VCF_DE_NOVO_ASSEMBLED_CONTIGS"] = 1

\* C32: whenever a generate_contigs task has ended, by returning or by
\* failing at any step, every Contig of the sample has its sequence file and
\* its contig_fasta dataset.
C32_NoContigWithoutSequence ==
    \A s \in Samples :
        genPc[s] \in {"done", "failed"} =>
            \A c \in contigs[s] : c.fasta /\ c.seq # "none"

\* The velvetg options the claim names, with their flags.
VelvetgFlags ==
    {<< "-ins_length", "ins_length" >>, << "-ins_length_sd", "ins_length_sd" >>,
     << "-exp_cov", "exp_cov" >>, << "-cov_cutoff", "cov_cutoff" >>,
     << "-min_contig_lgth", "min_contig_lgth" >>}

\* C33: in every _run_velvet invocation velveth is issued before velvetg on
\* the same working directory, velvetg is issued only if velveth returned
\* status zero, and velvetg is given scaffolding disabled together with the
\* insert-length mean and stdev, expected coverage, coverage cutoff and
\* minimum contig length of the options passed in.
C33_VelvethThenVelvetg ==
    velvetRun.called =>
        LET cmds == velvetRun.cmds
        IN  /\ Len(cmds) \in 1..2
            /\ cmds[1].bin = "velveth" /\ cmds[1].dir = velvetRun.dir
            /\ \A j \in DOMAIN cmds :
                  cmds[j].bin = "velvetg" =>
                      /\ j = 2
                      /\ cmds[1].ret = 0
                      /\ cmds[j].dir = velvetRun.dir
                      /\ [flag |-> "-scaffolding", value |-> Fixed(0)] \in Range(cmds[j].args)
                      /\ \A f \in VelvetgFlags :
                            /\ velvetRun.opts[<< "velvetg", f[2] >>] # Absent
                            /\ [flag |-> f[1], value |-> velvetRun.opts[<< "velvetg", f[2] >>]]
                                   \in Range(cmds[j].args)
                      /\ \A a \in Range(cmds[j].args) :
                            a.flag = "-scaffolding" => a.value = Fixed(0)
            /\ (cmds[1].ret = 0) => Len(cmds) = 2

\* velveth returned zero and velvetg was issued, with a coverage cutoff of
\* the caller that differs from the expected coverage.
C33_Witness ==
    /\ velvetRun.called /\ velvetRun.dir = 1
    /\ Len(velvetRun.cmds) = 2 /\ velvetRun.cmds[2].bin = "velvetg"
    /\ velvetRun.opts[<< "velvetg", "cov_cutoff" >>] = Caller(40)
    /\ velvetRun.opts[<< "velvetg", "exp_cov" >>] = Computed(VELVET_HASH_LENGTH)

\* a < b as Python compares strings: by the first character that differs,
\* a proper prefix before the longer string.
RECURSIVE LexLess(_, _)
LexLess(a, b) ==
    IF b = << >> THEN FALSE
    ELSE IF a = << >> THEN TRUE
    ELSE IF Head(a) # Head(b) THEN Head(a) < Head(b)
    ELSE LexLess(Tail(a), Tail(b))

\* The number a string of decimal digits writes.
RECURSIVE DecimalValue(_)
DecimalValue(q) ==
    IF q = << >> THEN 0 ELSE 10 * DecimalValue(SubSeq(q, 1, Len(q) - 1)) + (q[Len(q)] - 48)

\* C34: for an assembly of n records the i-th record gets the label
\* '<sample label>_<i zero-padded>', every ordinal padded to the number of
\* digits of n plus one; the labels of one run are pairwise distinct, of
\* equal length, and sort lexicographically in ordinal order.
C34_LabelsPaddedAndOrdered ==
    labelRun.called =>
        LET L == labelRun.labels
            p == Len(labelRun.sample) + 1
            w == Len(Str(labelRun.n)) + 1
        IN  /\ DOMAIN L = 1..labelRun.n
            /\ \A i \in DOMAIN L :
                  /\ Len(L[i]) = p + w
                  /\ SubSeq(L[i], 1, p) = labelRun.sample \o << 95 >>
                  /\ \A j \in (p + 1)..Len(L[i]) : L[i][j] \in 48..57
                  /\ DecimalValue(SubSeq(L[i], p + 1, Len(L[i]))) = i
            /\ \A i, j \in DOMAIN L : i < j => (L[i] # L[j] /\ LexLess(L[i], L[j]))

\* A run of more than a hundred records has been labelled: ordinals of one,
\* two and three digits.
C34_Witness ==
    /\ labelRun.called /\ labelRun.n > 100
    /\ labelRun.sample = << 115 >>
    /\ labelRun.labels[7] = << 115, 95, 48, 48, 48, 55 >>
    /\ labelRun.labels[12] = << 115, 95, 48, 48, 49, 50 >>

\* C35: every contig sequence written by assemble_with_velvet contains no gap
\* marker 'N', both when the original sequence is kept and when it is
\* replaced by the reassembled sequence.
C35_NoGapMarkerStored ==
    (seqRun.called /\ ~seqRun.raised) => 78 \notin Range(seqRun.stored)

\* C36: get_sv_indicating_reads completes for every combination of enabled
\* and disabled categories on a freshly cleaned sample (one with its source
\* alignment and no SV-evidence dataset); with the discordant category
\* disabled it does not require a discordant dataset.
C36_CompletesForEveryToggleSet ==
    (evid.called /\ evid.existed = {} /\ datasets[evid.sample]["BWA_ALIGN"] = 1)
        => ~evid.raised

\* The dataset types the cleanup deletes: the candidate VCFs, the SV-evidence
\* BAMs and the mobile-element fasta.
SvDatasetTypes ==
    Range(STRUCTURAL_VARIANT_VCF_DATASETS) \cup Range(STRUCTURAL_VARIANT_BAM_DATASETS)
        \cup {"MOBILE_ELEMENT_FASTA"}

\* C37: the cleanup of one sample leaves unchanged the Contigs, datasets and
\* working directories of every other sample, the variants that are not SV
\* variants of this sample, and this sample's datasets outside the SV types.
C37_CleanupFrame ==
    [][(runPc = "clean") =>
          LET s == runList[runIdx]
          IN  /\ \A o \in Samples \ {s} :
                    /\ contigs'[o] = contigs[o]
                    /\ datasets'[o] = datasets[o]
                    /\ {d \in fsDirs' : d.sample = o} = {d \in fsDirs : d.sample = o}
              /\ \A v \in variants :
                    (v.sample # s \/ v.method \notin CUSTOM_SV_METHODS \/ ~keyMapMethod)
                        => v \in variants'
              /\ \A x \in DatasetTypes \ SvDatasetTypes :
                    datasets'[s][x] = datasets[s][x]]_vars

\* The cleanup of a sample that had completed a run has returned and has
\* deleted its candidate VCFs, while another sample has Contigs, SV datasets,
\* an assembly directory and SV variants, and this sample still has its source
\* alignment, its assembly input and its variant of another caller.
C37_Witness ==
    /\ runPc = "setq"
    /\ LET s == runList[runIdx]
       IN  /\ firstRun[s] # NoRun
           /\ datasets[s]["VCF_DE_NOVO_ASSEMBLED_CONTIGS"] = 0
           /\ datasets[s]["BWA_ALIGN"] = 1
           /\ datasets[s]["BWA_FOR_DE_NOVO_ASSEMBLY"] = 1
           /\ \E v \in variants : v.sample = s /\ v.method \notin CUSTOM_SV_METHODS
           /\ \E o \in Samples \ {s} :
                 /\ contigs[o] # {}
                 /\ datasets[o]["VCF_DE_NOVO_ASSEMBLED_CONTIGS"] = 1
                 /\ datasets[o]["BWA_CLIPPED"] = 1
                 /\ AssemblyDir(o) \in fsDirs
                 /\ \E v \in variants : v.sample = o /\ v.method \in CUSTOM_SV_METHODS

====
